---- MODULE Spec2Model ----
(***************************************************************************)
(* Verification model of the deal-finder scraping engine: the auction      *)
(* adapter (scrapers/sites/ebay.py), the retail adapter                    *)
(* (scrapers/sites/newegg.py) and the social-marketplace adapter           *)
(* (scrapers/sites/facebook.py), each invoked by the aggregator            *)
(* (ui/app.py) one at a time.                                              *)
(*                                                                         *)
(* Text is modelled as a sequence of tokens (single characters for         *)
(* keywords and digits, whole literals for fixed URL fragments).  Python   *)
(* values that may be None or of several types are records with a "kind".  *)
(***************************************************************************)
EXTENDS Integers, Sequences, FiniteSets, TLC

VARIABLES
    active,        \* which adapter call the aggregator is inside ("none" between calls)
    e_pc,          \* EbayScraper.search: position
    e_in,          \* EbayScraper.search: the arguments of the current call
    e_url,         \* EbayScraper.search: local url
    e_backup_url,  \* EbayScraper.search: local backup_url
    e_requests,    \* the requests.get calls issued so far by the current search
    e_products,    \* EbayScraper.search: local products
    e_result,      \* how the call ended: [status, list], status "pending", "returned" or "raised"
    n_pc,          \* NeweggScraper.search: position
    n_in,          \* NeweggScraper.search: the arguments of the current call
    n_url,         \* NeweggScraper.search: local url
    n_log,         \* the fetch steps the current search has taken, in order
    n_page,        \* the page the browser shows after navigation
    n_products,    \* local products of search / _search_with_browser
    n_raised,      \* the steps of the current search that raised an exception
    n_result,      \* how the call ended: [status, list]
    creds,         \* utils.config.FB_CREDENTIALS: which of email, password are set
    f_pc,          \* FacebookMarketplaceScraper.search / _login_if_needed: position
    f_in,          \* the arguments of the current call
    f_url,         \* the URL the browser page is at (its kind)
    f_indicator,   \* whether an "already logged in" indicator is on the current page
    f_ret,         \* which of the two _login_if_needed calls is running
    f_call,        \* the running _login_if_needed call: what it saw and did
    f_logins,      \* the _login_if_needed calls of this search that returned
    f_search_url,  \* local search_url of _search_with_browser
    f_products,    \* local products of _search_with_browser
    f_raised,      \* the steps of the current search that raised an exception
    f_result,      \* how the call ended: [status, list]
    f_steps,       \* the page steps _search_with_browser took after its first login call
    profile,       \* whether the persistent browser profile holds a logged-in session
    cookies_file,  \* content of self.cookies_file (logs/fb_cookies.json)
    restores,      \* number of _restore_session calls made so far
    r_ctx,         \* names of the cookies the browser context holds
    r_last,        \* the last _restore_session call: its result and its add_cookies calls
    c_page,        \* _check_for_captcha: the page it is called on
    c_i,           \* _check_for_captcha: index of the next selector to try
    c_raised,      \* _check_for_captcha: the calls that raised inside it
    c_result,      \* _check_for_captcha: "none" while running, then "true" or "false"
    x_extractor,   \* the extractor, condition reader or URL builder applied last ("none" before any)
    x_card,        \* what it was applied to: a container, a document, a card or the arguments
    x_out,         \* what it gave: the records, the condition or the URL
    k_pc,          \* rank_recommendations: "called", "primary", "fallback" or "done"
    k_products,    \* its products argument
    k_log,         \* the model replies it consumed, in order
    k_order,       \* the returned list as positions in k_products
    k_result,      \* Pending, Returned(list) or Raised
    g_pc,          \* the aggregator's position: "ebay", "facebook", "newegg", "rank", "done"
    g_in,          \* what the user selected: platforms, sort order, budget, cap
    g_failed,      \* adapters whose search failed inside and was caught there
    g_collected,   \* what each adapter that ran handed back
    g_all,         \* all_results
    g_shown,       \* the list displayed: Pending until the end, Raised when the error box shows
    request_log,   \* SecurityManager.request_log: ip -> list of timestamps
    clock,         \* time.time() at the latest call
    q_ip,          \* the ip of the latest rate_limit_check ("none" before any)
    q_ret,         \* what it returned
    login_attempts, \* SecurityManager.login_attempts: key -> count and lockout_until
    l_now,         \* datetime.now() at the latest validation, in minutes
    l_recorded,    \* per key, the failures recorded since its counter was last cleared
    l_call         \* the latest login call: operation, key, returned value

ebayVars == <<e_pc, e_in, e_url, e_backup_url, e_requests, e_products, e_result>>
neweggVars == <<n_pc, n_in, n_url, n_log, n_page, n_products, n_raised, n_result>>
fbVars == <<f_pc, f_in, f_url, f_indicator, f_ret, f_call, f_logins, f_search_url,
            f_products, f_raised, f_result, f_steps>>
sessionVars == <<creds, profile, cookies_file, restores, r_ctx, r_last>>
adapterVars == <<active, ebayVars, neweggVars, fbVars, sessionVars>>
captchaVars == <<c_page, c_i, c_raised, c_result>>

\* the state of the helpers outside the three search calls
extractVars == <<x_extractor, x_card, x_out>>
rankVars == <<k_pc, k_products, k_log, k_order, k_result>>
aggVars == <<g_pc, g_in, g_failed, g_collected, g_all, g_shown>>
loginVars == <<login_attempts, l_now, l_recorded, l_call>>
rateVars == <<request_log, clock, q_ip, q_ret, loginVars>>
utilVars == <<captchaVars, extractVars, rankVars, aggVars, rateVars>>

Pending == [status |-> "pending", list |-> <<>>]
Returned(list) == [status |-> "returned", list |-> list]
Raised == [status |-> "raised", list |-> <<>>]

-----------------------------------------------------------------------------
(* Bounds of the model *)

MaxKwLen == 3
MaxListings == 2
MaxSpans == 2
MaxLines == 2
MaxWords == 2
MaxLinks == 1
MaxCookies == 2
MaxRestores == 2
MaxContentLen == 1
MaxProducts == 3
MaxRankItems == 2

-----------------------------------------------------------------------------
(* Inputs the aggregator passes: ui/app.py lines 270-300 *)

KwChars == {"a", " "}

RECURSIVE SeqsUpTo(_, _)
SeqsUpTo(S, n) ==
    IF n = 0 THEN {<<>>}
    ELSE LET shorter == SeqsUpTo(S, n - 1)
         IN  shorter \cup {Append(s, x) : s \in shorter, x \in S}

KeywordInputs == SeqsUpTo(KwChars, MaxKwLen)

None == [kind |-> "none", mills |-> 0]
PriceInt(n) == [kind |-> "int", mills |-> n * 1000]
PriceFloat(m) == [kind |-> "float", mills |-> m]
PriceStr(n) == [kind |-> "str", mills |-> n * 1000]

\* budget: the slider value (an int, 0 allowed) or whatever the query parser's
\* JSON carried under "budget" (a number or a string)
MaxPriceInputs ==
    {None, PriceInt(0), PriceInt(100), PriceFloat(100000), PriceFloat(1999), PriceStr(100)}

ConditionInputs == {"None", "new", "NEW", "Used", "refurbished"}

NoLocation == [given |-> FALSE, zipcode |-> "", distance |-> -1]
LocationInputs ==
    {NoLocation,
     [given |-> TRUE, zipcode |-> "", distance |-> 10],
     [given |-> TRUE, zipcode |-> "90210", distance |-> -1]}

-----------------------------------------------------------------------------
(* Python built-ins used by the adapters *)

\* bool(x) for a max_price value: None, 0 and 0.0 are falsy
Truthy(p) ==
    CASE p.kind = "none" -> FALSE
      [] p.kind = "str" -> TRUE
      [] OTHER -> p.mills # 0

\* str.lower() on the condition values
Lower(c) ==
    CASE c = "NEW" -> "new"
      [] c = "Used" -> "used"
      [] c = "Shop on eBay" -> "shop on ebay"
      [] c = "SHOP ON EBAY" -> "shop on ebay"
      [] c = "Laptop" -> "laptop"
      [] c = "Phone" -> "phone"
      [] c = "CAPTCHA" -> "captcha"
      [] c = "Security Check" -> "security check"
      [] OTHER -> c

\* str.split(): maximal runs of non-whitespace characters
RECURSIVE SplitFrom(_, _, _)
SplitFrom(s, cur, acc) ==
    IF s = <<>> THEN (IF cur = <<>> THEN acc ELSE Append(acc, cur))
    ELSE IF Head(s) = " "
         THEN SplitFrom(Tail(s), <<>>, IF cur = <<>> THEN acc ELSE Append(acc, cur))
         ELSE SplitFrom(Tail(s), Append(cur, Head(s)), acc)

Split(s) == SplitFrom(s, <<>>, <<>>)

\* sep.join(words)
RECURSIVE Join(_, _)
Join(words, sep) ==
    IF words = <<>> THEN <<>>
    ELSE IF Len(words) = 1 THEN Head(words)
    ELSE Head(words) \o <<sep>> \o Join(Tail(words), sep)

DigitChars == <<"0", "1", "2", "3", "4", "5", "6", "7", "8", "9">>

RECURSIVE Digits(_)
Digits(n) ==
    IF n < 10 THEN <<DigitChars[n + 1]>>
    ELSE Append(Digits(n \div 10), DigitChars[(n % 10) + 1])

\* format(x, ".2f") of a number given in thousandths: rounded to cents, always
\* two decimals (the price inputs avoid exact half-cents)
Fixed2(mills) ==
    LET cents == (mills + 5) \div 10
    IN  Digits(cents \div 100) \o <<".">> \o
        <<DigitChars[((cents \div 10) % 10) + 1], DigitChars[(cents % 10) + 1]>>

\* the fractional digits of repr(float): trailing zeros dropped, at least one kept
FracRepr(m) ==
    IF m % 1000 = 0 THEN <<"0">>
    ELSE IF m % 100 = 0 THEN <<DigitChars[((m \div 100) % 10) + 1]>>
    ELSE IF m % 10 = 0
         THEN <<DigitChars[((m \div 100) % 10) + 1], DigitChars[((m \div 10) % 10) + 1]>>
    ELSE <<DigitChars[((m \div 100) % 10) + 1], DigitChars[((m \div 10) % 10) + 1],
           DigitChars[(m % 10) + 1]>>

\* str(x) as an f-string "{x}" renders it: int without decimals, float by repr
Str(p) ==
    CASE p.kind = "int" -> Digits(p.mills \div 1000)
      [] p.kind = "float" -> Digits(p.mills \div 1000) \o <<".">> \o FracRepr(p.mills)
      [] p.kind = "str" -> Digits(p.mills \div 1000)
      [] OTHER -> <<"None">>

\* whether format(x, ".2f") raises: it does for a str (ValueError)
Fixed2Raises(p) == p.kind = "str"

\* str.strip() on the element texts used below
Strip(text) == IF text = "  " THEN "" ELSE text

\* href.startswith('http')
StartsWithHttp(href) ==
    href \in {"https://www.ebay.com/itm/1", "https://www.newegg.com/p/2",
              "https://www.facebook.com/marketplace/item/2"}

DigitSet == {DigitChars[d] : d \in 1..10}

\* the character class [0-9,] of the price patterns
PriceCharSet == DigitSet \cup {","}

\* int() of a string of digits
RECURSIVE ToInt(_)
ToInt(ds) ==
    IF ds = <<>> THEN 0
    ELSE 10 * ToInt(SubSeq(ds, 1, Len(ds) - 1))
           + ((CHOOSE d \in 1..10 : DigitChars[d] = ds[Len(ds)]) - 1)

\* str.replace(ch, '')
RECURSIVE RemoveAll(_, _)
RemoveAll(s, ch) ==
    IF s = <<>> THEN <<>>
    ELSE (IF Head(s) = ch THEN <<>> ELSE <<Head(s)>>) \o RemoveAll(Tail(s), ch)

\* the end of the longest run of characters of S that starts at position i
\* (i - 1 when s[i] is not in S): how a greedy class+ or class* matches
RunEnd(s, i, S) ==
    CHOOSE j \in (i - 1)..Len(s) :
        /\ \A k \in i..j : s[k] \in S
        /\ j = Len(s) \/ s[j + 1] \notin S

NoPrice == [ok |-> FALSE, cents |-> 0]
PriceOf(cents) == [ok |-> TRUE, cents |-> cents]

\* float() of an integer part and a fraction part (digit strings), in cents;
\* ValueError when neither holds a digit or either holds something else
FloatCents(whole, frac) ==
    IF (whole = <<>> /\ frac = <<>>)
         \/ (\E i \in 1..Len(whole) : whole[i] \notin DigitSet)
         \/ (\E i \in 1..Len(frac) : frac[i] \notin DigitSet)
    THEN NoPrice
    ELSE PriceOf(100 * ToInt(whole)
                 + (IF Len(frac) = 0 THEN 0
                    ELSE IF Len(frac) = 1 THEN 10 * ToInt(frac)
                    ELSE ToInt(SubSeq(frac, 1, 2))))

-----------------------------------------------------------------------------
(* Auction adapter: scrapers/sites/ebay.py *)

EbayBaseUrl == <<"https://www.ebay.com/sch/i.html?_nkw=">>

EbayConditionParam(condition) ==
    IF condition = "None" THEN <<>>
    ELSE IF Lower(condition) = "new" THEN <<"&LH_ItemCondition=", "1000">>
    ELSE IF Lower(condition) = "used" THEN <<"&LH_ItemCondition=", "3000">>
    ELSE <<>>

\* a variant that renders the budget as str() does, as the backup URL has it
EbayPriceParamPlain(max_price) ==
    IF Truthy(max_price) THEN <<"&_udhi=">> \o Str(max_price) ELSE <<>>

EbayPriceParam(max_price) ==
    IF Truthy(max_price) THEN <<"&_udhi=">> \o Fixed2(max_price.mills) ELSE <<>>

EbayLocationParam(location) ==
    IF location.given /\ location.zipcode # ""
    THEN <<"&_stpos=", location.zipcode, "&_localstpos=", location.zipcode, "&_sadis=">>
         \o Digits(IF location.distance < 0 THEN 25 ELSE location.distance)
         \o <<"&LH_PrefLoc=1">>
    ELSE <<>>

EbayUrl(keywords, max_price, condition, location) ==
    EbayBaseUrl \o Join(Split(keywords), "+") \o EbayPriceParam(max_price)
      \o EbayConditionParam(condition) \o EbayLocationParam(location)

EbayBackupUrl(keywords, max_price) ==
    EbayBaseUrl \o Join(Split(keywords), "+")
      \o (IF Truthy(max_price) THEN <<"&_udhi=">> \o Str(max_price) ELSE <<>>)

\* A listing container as _parse_product sees it: the text of the first title,
\* price and link element found ("none" when no selector matches), and whether
\* the container's text holds the "More items like this" placeholder phrase.
EbayCards ==
    {[title |-> "Laptop", price |-> "$99.99", href |-> "https://www.ebay.com/itm/1", more |-> FALSE],
     [title |-> "Shop on eBay", price |-> "$20.00", href |-> "https://www.ebay.com/itm/2", more |-> FALSE],
     [title |-> "Phone", price |-> "none", href |-> "https://www.ebay.com/itm/3", more |-> FALSE]}

\* A response body: whether its text contains "robot" or "captcha", and the
\* listing containers the selectors find, in document order.
EbayPages ==
    [robot : BOOLEAN, listings : SeqsUpTo(EbayCards, MaxListings)]

\* link_elem['href'] on a link element without the attribute: KeyError
NoHrefAttribute == "no href attribute"

\* a variant that compares the title with the placeholder letter for letter
EbayParseProductCaseSensitive(card) ==
    IF card.title = "none" \/ card.price = "none" \/ card.href = "none" THEN <<>>
    ELSE IF Strip(card.title) = "Shop on eBay" \/ Strip(card.title) = "" THEN <<>>
    ELSE IF card.href = NoHrefAttribute THEN <<>>
    ELSE <<[title |-> Strip(card.title), price |-> card.price, url |-> card.href]>>

\* _parse_product: None when an element is missing, for a placeholder title, and
\* (the except clause) when reading the href raises
EbayParseProduct(card) ==
    IF card.title = "none" \/ card.price = "none" \/ card.href = "none" THEN <<>>
    ELSE IF Lower(Strip(card.title)) = "shop on ebay" \/ Strip(card.title) = "" THEN <<>>
    ELSE IF card.href = NoHrefAttribute THEN <<>>
    ELSE <<[title |-> Strip(card.title), price |-> card.price, url |-> card.href]>>

\* the listing loop: placeholder containers and containers without a product
\* are passed over, the others are appended in document order
RECURSIVE EbayParseListings(_)
EbayParseListings(listings) ==
    IF listings = <<>> THEN <<>>
    ELSE (IF Head(listings).more THEN <<>> ELSE EbayParseProduct(Head(listings)))
         \o EbayParseListings(Tail(listings))

EbayParseSearchResults(page) ==
    IF page.robot THEN <<>> ELSE EbayParseListings(page.listings)

\* What one requests.get + raise_for_status + parse can do
HttpFailures == {"transport_exception", "status_error", "parse_exception"}

\* "if products: return products" after the primary parse
EbayReturnsEarly(products) == products # <<>>

\* a variant whose backup guard is inverted
EbayTriesBackupInverted(products) == products # <<>>

\* "if not products:" guarding the backup attempt
EbayTriesBackup(products) == products = <<>>

\* the step after the primary attempt left `products`
EbayAfterPrimary(products) ==
    IF EbayReturnsEarly(products) THEN "done"
    ELSE IF EbayTriesBackup(products) THEN "backup" ELSE "done"

\* search, up to the first request: the URLs are built outside any try block
EbaySearch(keywords, max_price, condition, location) ==
    /\ active = "none"
    /\ e_pc = "idle"
    /\ active' = "ebay"
    /\ e_in' = [keywords |-> keywords, max_price |-> max_price,
                condition |-> condition, location |-> location]
    /\ e_requests' = <<>>
    /\ e_products' = <<>>
    /\ IF Truthy(max_price) /\ Fixed2Raises(max_price)
       THEN /\ e_pc' = "done"
            /\ e_result' = Raised
            /\ UNCHANGED <<e_url, e_backup_url>>
       ELSE /\ e_pc' = "primary"
            /\ e_result' = Pending
            /\ e_url' = EbayUrl(keywords, max_price, condition, location)
            /\ e_backup_url' = EbayBackupUrl(keywords, max_price)
    /\ UNCHANGED <<neweggVars, fbVars, sessionVars, utilVars>>

\* the primary attempt fails: the except clause leaves products empty
EbayPrimaryFails(failure) ==
    /\ active = "ebay"
    /\ e_pc = "primary"
    /\ e_requests' = Append(e_requests, [which |-> "primary", url |-> e_url,
                                          outcome |-> failure])
    /\ e_products' = <<>>
    /\ e_pc' = EbayAfterPrimary(e_products')
    /\ e_result' = IF e_pc' = "done" THEN Returned(e_products') ELSE e_result
    /\ UNCHANGED <<active, e_in, e_url, e_backup_url, neweggVars, fbVars, sessionVars, utilVars>>

\* the primary attempt gets a body: return at once when it holds a product
EbayPrimaryResponds(page) ==
    /\ active = "ebay"
    /\ e_pc = "primary"
    /\ e_products' = EbayParseSearchResults(page)
    /\ e_requests' = Append(e_requests,
                            [which |-> "primary", url |-> e_url,
                             outcome |-> IF e_products' = <<>> THEN "empty" ELSE "products"])
    /\ e_pc' = EbayAfterPrimary(e_products')
    /\ e_result' = IF e_pc' = "done" THEN Returned(e_products') ELSE e_result
    /\ UNCHANGED <<active, e_in, e_url, e_backup_url, neweggVars, fbVars, sessionVars, utilVars>>

EbayBackupFails(failure) ==
    /\ active = "ebay"
    /\ e_pc = "backup"
    /\ e_products = <<>>
    /\ e_requests' = Append(e_requests, [which |-> "backup", url |-> e_backup_url,
                                          outcome |-> failure])
    /\ e_pc' = "done"
    /\ e_result' = Returned(e_products)
    /\ UNCHANGED <<active, e_in, e_url, e_backup_url, e_products, neweggVars, fbVars, sessionVars, utilVars>>

EbayBackupResponds(page) ==
    /\ active = "ebay"
    /\ e_pc = "backup"
    /\ e_products = <<>>
    /\ e_products' = EbayParseSearchResults(page)
    /\ e_requests' = Append(e_requests,
                            [which |-> "backup", url |-> e_backup_url,
                             outcome |-> IF e_products' = <<>> THEN "empty" ELSE "products"])
    /\ e_pc' = "done"
    /\ e_result' = Returned(e_products')
    /\ UNCHANGED <<active, e_in, e_url, e_backup_url, neweggVars, fbVars, sessionVars, utilVars>>

\* the aggregator takes the result (or its handler takes the exception) and the
\* scraper object is dropped
EbayReturn ==
    /\ active = "ebay"
    /\ e_pc = "done"
    /\ active' = "none"
    /\ e_pc' = "idle"
    /\ e_in' = [keywords |-> <<>>, max_price |-> None, condition |-> "None",
                location |-> NoLocation]
    /\ e_url' = <<>>
    /\ e_backup_url' = <<>>
    /\ e_requests' = <<>>
    /\ e_products' = <<>>
    /\ e_result' = Pending
    /\ UNCHANGED <<neweggVars, fbVars, sessionVars, utilVars>>

EbayInit ==
    /\ e_pc = "idle"
    /\ e_in = [keywords |-> <<>>, max_price |-> None, condition |-> "None",
               location |-> NoLocation]
    /\ e_url = <<>>
    /\ e_backup_url = <<>>
    /\ e_requests = <<>>
    /\ e_products = <<>>
    /\ e_result = Pending

EbayNext ==
    \/ e_pc = "idle" /\
         \E k \in KeywordInputs, p \in MaxPriceInputs, c \in ConditionInputs,
            l \in LocationInputs : EbaySearch(k, p, c, l)
    \/ \E f \in HttpFailures : EbayPrimaryFails(f)
    \/ e_pc = "primary" /\ \E page \in EbayPages : EbayPrimaryResponds(page)
    \/ \E f \in HttpFailures : EbayBackupFails(f)
    \/ e_pc = "backup" /\ \E page \in EbayPages : EbayBackupResponds(page)
    \/ EbayReturn

-----------------------------------------------------------------------------
(* Retail adapter: scrapers/sites/newegg.py *)

NeweggBaseUrl == <<"https://www.newegg.com/p/pl?d=">>

NeweggCodeNew == 100167671
NeweggCodeRefurbished == 100167670
NeweggCodeOpenBox == 100167669

\* a variant that files refurbished items under the code for new ones
NeweggConditionParamMerged(condition) ==
    IF condition = "None" THEN <<>>
    ELSE IF Lower(condition) \in {"new", "refurbished"} THEN <<"&N=">> \o Digits(NeweggCodeNew)
    ELSE IF Lower(condition) = "used" THEN <<"&N=">> \o Digits(NeweggCodeOpenBox)
    ELSE <<>>

NeweggConditionParam(condition) ==
    IF condition = "None" THEN <<>>
    ELSE IF Lower(condition) = "new" THEN <<"&N=">> \o Digits(NeweggCodeNew)
    ELSE IF Lower(condition) = "refurbished" THEN <<"&N=">> \o Digits(NeweggCodeRefurbished)
    ELSE IF Lower(condition) = "used" THEN <<"&N=">> \o Digits(NeweggCodeOpenBox)
    ELSE <<>>

NeweggPriceParam(max_price) ==
    IF Truthy(max_price) THEN <<"&Price=%7B0%7D+TO+">> \o Str(max_price) ELSE <<>>

NeweggUrl(keywords, max_price, condition) ==
    NeweggBaseUrl \o Join(Split(keywords), "+") \o NeweggPriceParam(max_price)
      \o NeweggConditionParam(condition)

\* The markup of a price element: the characters of its text, and the texts of
\* its <strong> and <sup> children (<<"none">> when there is no such child).
PriceDollars == [text |-> <<"$", "1", "9", "9", ".", "9", "9">>,
                 strong |-> <<"none">>, sup |-> <<"none">>]
PriceThousands == [text |-> <<"$", "1", ",", "2", "9", "9", ".", "9", "9">>,
                   strong |-> <<"none">>, sup |-> <<"none">>]
PriceSplit == [text |-> <<"$", "1", "9", "9", "9", "9">>,
               strong |-> <<"1", "9", "9">>, sup |-> <<"9", "9">>]
PriceSplitThousands == [text |-> <<"1", ",", "2", "9", "9", "9", "9">>,
                        strong |-> <<"1", ",", "2", "9", "9">>, sup |-> <<"9", "9">>]
PriceOutOfStock == [text |-> <<"O", "u", "t">>, strong |-> <<"none">>, sup |-> <<"none">>]
NoPriceElement == [text |-> <<"none">>, strong |-> <<"none">>, sup |-> <<"none">>]

\* re.search(r'\$([0-9,]+\.[0-9]{2})', text): the group, <<>> when nothing matches
DollarPriceMatch(text) ==
    LET hits == {i \in 1..Len(text) :
                   /\ text[i] = "$"
                   /\ LET j == RunEnd(text, i + 1, PriceCharSet)
                      IN  /\ j >= i + 1
                          /\ j + 3 <= Len(text)
                          /\ text[j + 1] = "."
                          /\ text[j + 2] \in DigitSet
                          /\ text[j + 3] \in DigitSet}
    IN  IF hits = {} THEN <<>>
        ELSE LET i == CHOOSE h \in hits : \A g \in hits : h <= g
             IN  SubSeq(text, i + 1, RunEnd(text, i + 1, PriceCharSet) + 3)

\* re.search(r'([0-9,]+\.[0-9]{2})', text): the group, <<>> when nothing matches
AnyPriceMatch(text) ==
    LET hits == {i \in 1..Len(text) :
                   /\ text[i] \in PriceCharSet
                   /\ LET j == RunEnd(text, i, PriceCharSet)
                      IN  /\ j + 3 <= Len(text)
                          /\ text[j + 1] = "."
                          /\ text[j + 2] \in DigitSet
                          /\ text[j + 3] \in DigitSet}
    IN  IF hits = {} THEN <<>>
        ELSE LET i == CHOOSE h \in hits : \A g \in hits : h <= g
             IN  SubSeq(text, i, RunEnd(text, i, PriceCharSet) + 3)

\* float(group.replace(',', '')) of a group that ends in a point and two digits
DecimalCents(group) ==
    FloatCents(RemoveAll(SubSeq(group, 1, Len(group) - 3), ","),
               SubSeq(group, Len(group) - 1, Len(group)))

\* the price of _parse_search_results: the dollar pattern; else the <strong> and
\* <sup> children as dollars and cents; else any decimal number; else no price
NeweggHtmlPrice(markup) ==
    IF DollarPriceMatch(markup.text) # <<>> THEN DecimalCents(DollarPriceMatch(markup.text))
    ELSE IF markup.strong # <<"none">> /\ markup.sup # <<"none">>
         THEN FloatCents(RemoveAll(markup.strong, ","), markup.sup)
    ELSE IF AnyPriceMatch(markup.text) # <<>> THEN DecimalCents(AnyPriceMatch(markup.text))
    ELSE NoPrice

\* re.search(r'\$?([\d,]+\.?\d*)', text): the group, <<>> when nothing matches
NumberMatch(text) ==
    LET hits == {i \in 1..Len(text) : text[i] \in PriceCharSet}
    IN  IF hits = {} THEN <<>>
        ELSE LET i == CHOOSE h \in hits : \A g \in hits : h <= g
                 j == RunEnd(text, i, PriceCharSet)
             IN  IF j < Len(text) /\ text[j + 1] = "."
                 THEN SubSeq(text, i, RunEnd(text, j + 2, DigitSet))
                 ELSE SubSeq(text, i, j)

\* the price of _parse_product: float() of the first number in the text, commas
\* removed; no "price" key when there is no number or float() raises
NeweggElementPrice(markup) ==
    LET group == RemoveAll(NumberMatch(markup.text), ",")
        point == IF \E i \in 1..Len(group) : group[i] = "."
                 THEN CHOOSE i \in 1..Len(group) : group[i] = "." ELSE Len(group) + 1
    IN  IF group = <<>> THEN NoPrice
        ELSE FloatCents(SubSeq(group, 1, point - 1), SubSeq(group, point + 1, Len(group)))

\* A product cell: sponsored marker, title text, price element and link href of
\* the first matching elements ("none" when nothing matches).
NeweggCards ==
    {[sponsored |-> FALSE, title |-> "Laptop", price |-> PriceDollars, href |-> "/p/1"],
     [sponsored |-> TRUE, title |-> "Phone", price |-> PriceThousands,
      href |-> "https://www.newegg.com/p/2"],
     [sponsored |-> FALSE, title |-> "Phone", price |-> PriceOutOfStock, href |-> "/p/3"]}

\* relative links are rewritten against the origin
NeweggAbsolute(href) ==
    IF StartsWithHttp(href) THEN <<href>> ELSE <<"https://www.newegg.com", href>>

\* a variant whose condition lookup uses a selector the HTML parser accepts
NeweggConditionLookupAccepted(cell) == FALSE

\* cell.select_one('... .item-branding:has-text("Refurbished"), ...') at line 429:
\* ":has-text" is a pseudo-class of the browser's selector engine; the HTML
\* parser's engine rejects the selector, so the lookup raises for every cell
\* that gets this far
NeweggConditionLookupRaises(cell) == TRUE

\* one cell of _parse_search_results (the plain-HTTP extractor); whatever raises
\* inside the loop body is caught and the cell is skipped
NeweggParseCell(cell) ==
    IF cell.sponsored THEN <<>>
    ELSE IF cell.title = "none" \/ cell.price = NoPriceElement \/ cell.href = "none" THEN <<>>
    ELSE IF ~NeweggHtmlPrice(cell.price).ok THEN <<>>
    ELSE IF NeweggConditionLookupRaises(cell) THEN <<>>
    ELSE <<[title |-> Strip(cell.title), price |-> NeweggHtmlPrice(cell.price).cents,
            url |-> NeweggAbsolute(cell.href), urlKey |-> "link", source |-> "newegg"]>>

RECURSIVE NeweggParseCells(_)
NeweggParseCells(cells) ==
    IF cells = <<>> THEN <<>>
    ELSE NeweggParseCell(Head(cells)) \o NeweggParseCells(Tail(cells))

\* A response body or browser page: whether its text holds one of the words
\* "robot", "captcha", "verify you are a human"; whether a challenge element is
\* visible (browser only); the product cells in document order.
NeweggPages ==
    [vocab : BOOLEAN, challenge : BOOLEAN, cells : SeqsUpTo(NeweggCards, MaxListings)]

NoPage == [vocab |-> FALSE, challenge |-> FALSE, cells |-> <<>>]

NeweggParseSearchResults(page) ==
    IF page.vocab THEN <<>> ELSE NeweggParseCells(page.cells)

\* _try_regular_request returns [] for a response with the captcha vocabulary
NeweggTryRegularResponse(page) ==
    IF page.vocab THEN <<>> ELSE NeweggParseSearchResults(page)

\* one container of _extract_products_from_page / _parse_product (browser path)
NeweggParseProduct(cell) ==
    IF cell.title = "none" THEN <<>>
    ELSE IF cell.price = NoPriceElement \/ ~NeweggElementPrice(cell.price).ok THEN <<>>
    ELSE IF cell.href = "none" THEN <<>>
    ELSE <<[title |-> Strip(cell.title), price |-> NeweggElementPrice(cell.price).cents,
            url |-> NeweggAbsolute(cell.href),
            urlKey |-> "url", source |-> "Newegg"]>>

RECURSIVE NeweggExtractProductsFromPage(_)
NeweggExtractProductsFromPage(cells) ==
    IF cells = <<>> THEN <<>>
    ELSE NeweggParseProduct(Head(cells)) \o NeweggExtractProductsFromPage(Tail(cells))

\* _check_for_captcha: a visible challenge element, or the vocabulary in the content
NeweggCheckForCaptcha(page) == page.challenge \/ page.vocab

\* a variant of search without its except clause
NeweggSearchUnhandled == Raised

\* what search's own except clause returns
NeweggSearchHandler == Returned(<<>>)

\* a variant whose fallback guard is inverted
NeweggFallsBackInverted(products) == products # <<>>

\* "if not products:" guarding the browser fallback
NeweggFallsBack(products) == products = <<>>

NeweggHttpEntry(outcome, products) ==
    [step |-> "http", outcome |-> outcome, products |-> products]

NeweggBrowserEntry == [step |-> "browser", outcome |-> "launched", products |-> <<>>]

\* search, up to the plain-HTTP request; keywords that are no str make .split() raise
NeweggSearch(keywords, kwIsStr, max_price, condition) ==
    /\ active = "none"
    /\ n_pc = "idle"
    /\ active' = "newegg"
    /\ n_in' = [keywords |-> keywords, kwIsStr |-> kwIsStr, max_price |-> max_price,
                condition |-> condition]
    /\ n_log' = <<>>
    /\ n_products' = <<>>
    /\ n_page' = NoPage
    /\ IF ~kwIsStr
       THEN /\ n_pc' = "done"
            /\ n_raised' = {"build_url"}
            /\ n_result' = NeweggSearchHandler
            /\ UNCHANGED n_url
       ELSE /\ n_pc' = "http"
            /\ n_raised' = {}
            /\ n_result' = Pending
            /\ n_url' = NeweggUrl(keywords, max_price, condition)
    /\ UNCHANGED <<ebayVars, fbVars, sessionVars, utilVars>>

\* _try_regular_request: the request, the status check or the parser raises
NeweggHttpFails(failure) ==
    /\ active = "newegg"
    /\ n_pc = "http"
    /\ n_log' = Append(n_log, NeweggHttpEntry(failure, <<>>))
    /\ n_raised' = n_raised \cup {"http"}
    /\ n_products' = <<>>
    /\ IF NeweggFallsBack(n_products')
       THEN n_pc' = "launch" /\ UNCHANGED n_result
       ELSE n_pc' = "done" /\ n_result' = Returned(n_products')
    /\ UNCHANGED <<active, n_in, n_url, n_page, ebayVars, fbVars, sessionVars, utilVars>>

\* _try_regular_request gets a body; search returns its products when there are any
NeweggHttpResponds(page) ==
    /\ active = "newegg"
    /\ n_pc = "http"
    /\ n_products' = NeweggTryRegularResponse(page)
    /\ n_log' = Append(n_log,
                       NeweggHttpEntry(IF page.vocab THEN "blocked"
                                       ELSE IF n_products' = <<>> THEN "empty"
                                       ELSE "products", n_products'))
    /\ IF NeweggFallsBack(n_products')
       THEN n_pc' = "launch" /\ UNCHANGED n_result
       ELSE n_pc' = "done" /\ n_result' = Returned(n_products')
    /\ UNCHANGED <<active, n_in, n_url, n_page, n_raised, ebayVars, fbVars, sessionVars, utilVars>>

\* _search_with_browser: makedirs, sync_playwright and chromium.launch
NeweggLaunch(ok) ==
    /\ active = "newegg"
    /\ n_pc = "launch"
    /\ n_log' = Append(n_log, NeweggBrowserEntry)
    /\ IF ok
       THEN n_pc' = "navigate" /\ UNCHANGED <<n_raised, n_result>>
       ELSE /\ n_pc' = "done"
            /\ n_raised' = n_raised \cup {"launch"}
            /\ n_result' = Returned(n_products)
    /\ UNCHANGED <<active, n_in, n_url, n_page, n_products, ebayVars, fbVars, sessionVars, utilVars>>

\* new_page, screenshot and page.goto(url)
NeweggNavigate(ok, page) ==
    /\ active = "newegg"
    /\ n_pc = "navigate"
    /\ IF ok
       THEN n_pc' = "captcha" /\ n_page' = page /\ UNCHANGED <<n_raised, n_result>>
       ELSE /\ page = NoPage
            /\ n_pc' = "done"
            /\ n_raised' = n_raised \cup {"navigate"}
            /\ n_result' = Returned(n_products)
            /\ UNCHANGED n_page
    /\ UNCHANGED <<active, n_in, n_url, n_log, n_products, ebayVars, fbVars, sessionVars, utilVars>>

\* a variant that goes on to the product grid whatever the handler said
NeweggAfterCaptchaContinues(detected, handled) == "grid"

\* lines 148-163: a detected challenge the handler could not handle ends the
\* attempt (close, return []); otherwise the product grid is awaited
NeweggAfterCaptcha(detected, handled) ==
    IF detected /\ ~handled THEN "done" ELSE "grid"

\* the captcha branch: detector, debug snapshot, handler
\*   outcome "handled":   _handle_captcha returned True
\*   outcome "unhandled": _handle_captcha returned False: close, return []
\*   outcome "snapshot_raises": writing the debug HTML raised, caught by the outer except
NeweggCaptcha(outcome) ==
    /\ active = "newegg"
    /\ n_pc = "captcha"
    /\ IF ~NeweggCheckForCaptcha(n_page)
       THEN /\ outcome = "handled"
            /\ n_pc' = NeweggAfterCaptcha(FALSE, TRUE)
            /\ UNCHANGED <<n_raised, n_result>>
       ELSE CASE outcome \in {"handled", "unhandled"} ->
                   /\ n_pc' = NeweggAfterCaptcha(TRUE, outcome = "handled")
                   /\ n_raised' = IF outcome = "handled" THEN n_raised
                                  ELSE n_raised \cup {"handle_captcha"}
                   /\ n_result' = IF n_pc' = "done" THEN Returned(<<>>) ELSE n_result
              [] OTHER ->
                   /\ n_pc' = "done"
                   /\ n_raised' = n_raised \cup {"snapshot"}
                   /\ n_result' = Returned(n_products)
    /\ UNCHANGED <<active, n_in, n_url, n_log, n_page, n_products, ebayVars, fbVars, sessionVars, utilVars>>

\* waiting for the product grid:
\*   "visible": extract; "hidden": selector found but not visible;
\*   "timeout": wait_for_selector raised, and the page title does not say "no matches";
\*   "no_matches": wait_for_selector raised and the title says "no matches": return []
NeweggGrid(outcome) ==
    /\ active = "newegg"
    /\ n_pc = "grid"
    /\ CASE outcome = "visible" ->
              /\ n_products' = NeweggExtractProductsFromPage(n_page.cells)
              /\ n_pc' = "close"
              /\ UNCHANGED <<n_raised, n_result>>
         [] outcome = "hidden" ->
              /\ n_pc' = "close"
              /\ UNCHANGED <<n_products, n_raised, n_result>>
         [] outcome = "timeout" ->
              /\ n_pc' = "close"
              /\ n_raised' = n_raised \cup {"grid"}
              /\ UNCHANGED <<n_products, n_result>>
         [] OTHER ->
              /\ n_pc' = "done"
              /\ n_raised' = n_raised \cup {"grid"}
              /\ n_result' = Returned(<<>>)
              /\ UNCHANGED n_products
    /\ UNCHANGED <<active, n_in, n_url, n_log, n_page, ebayVars, fbVars, sessionVars, utilVars>>

\* browser.close() and the end of the playwright block; a failure here is caught
\* by the outer except, and products is returned as it stands
NeweggClose(ok) ==
    /\ active = "newegg"
    /\ n_pc = "close"
    /\ n_pc' = "done"
    /\ n_raised' = IF ok THEN n_raised ELSE n_raised \cup {"close"}
    /\ n_result' = Returned(n_products)
    /\ UNCHANGED <<active, n_in, n_url, n_log, n_page, n_products, ebayVars, fbVars, sessionVars, utilVars>>

NeweggIdleIn ==
    [keywords |-> <<>>, kwIsStr |-> TRUE, max_price |-> None, condition |-> "None"]

NeweggReturn ==
    /\ active = "newegg"
    /\ n_pc = "done"
    /\ active' = "none"
    /\ n_pc' = "idle"
    /\ n_in' = NeweggIdleIn
    /\ n_url' = <<>>
    /\ n_log' = <<>>
    /\ n_page' = NoPage
    /\ n_products' = <<>>
    /\ n_raised' = {}
    /\ n_result' = Pending
    /\ UNCHANGED <<ebayVars, fbVars, sessionVars, utilVars>>

NeweggInit ==
    /\ n_pc = "idle"
    /\ n_in = NeweggIdleIn
    /\ n_url = <<>>
    /\ n_log = <<>>
    /\ n_page = NoPage
    /\ n_products = <<>>
    /\ n_raised = {}
    /\ n_result = Pending

\* the argument lists the retailer search is exercised with: every condition
\* text, budgets of each type, and one call whose keywords are no string
NeweggArguments ==
    {[keywords |-> <<"a">>, kwIsStr |-> TRUE, max_price |-> None, condition |-> c] :
        c \in ConditionInputs}
      \cup {[keywords |-> <<"a", " ", "a">>, kwIsStr |-> TRUE, max_price |-> PriceInt(100),
              condition |-> "new"],
             [keywords |-> <<"a", " ", "a">>, kwIsStr |-> TRUE, max_price |-> PriceFloat(1999),
              condition |-> "None"],
             [keywords |-> <<>>, kwIsStr |-> FALSE, max_price |-> None, condition |-> "None"]}

NeweggNext ==
    \/ \E a \in NeweggArguments :
          NeweggSearch(a.keywords, a.kwIsStr, a.max_price, a.condition)
    \/ \E f \in HttpFailures : NeweggHttpFails(f)
    \/ n_pc = "http" /\ \E page \in NeweggPages : NeweggHttpResponds(page)
    \/ \E ok \in BOOLEAN : NeweggLaunch(ok)
    \/ n_pc = "navigate" /\ \E ok \in BOOLEAN, page \in NeweggPages : NeweggNavigate(ok, page)
    \/ \E o \in {"handled", "unhandled", "snapshot_raises"} : NeweggCaptcha(o)
    \/ \E o \in {"visible", "hidden", "timeout", "no_matches"} : NeweggGrid(o)
    \/ \E ok \in BOOLEAN : NeweggClose(ok)
    \/ NeweggReturn

-----------------------------------------------------------------------------
(* Social-marketplace adapter: scrapers/sites/facebook.py *)

\* str.replace(' ', '%20')
RECURSIVE ReplaceSpaces(_)
ReplaceSpaces(s) ==
    IF s = <<>> THEN <<>>
    ELSE (IF Head(s) = " " THEN <<"%20">> ELSE <<Head(s)>>) \o ReplaceSpaces(Tail(s))

FbConditionParam(condition) ==
    IF condition = "None" THEN <<>>
    ELSE <<"&condition=", IF Lower(condition) = "new" THEN "new" ELSE "used">>

FbSearchUrl(keywords, max_price, condition) ==
    <<"https://www.facebook.com/marketplace/search?query=">> \o ReplaceSpaces(keywords)
      \o (IF Truthy(max_price) THEN <<"&maxPrice=">> \o Str(max_price) ELSE <<>>)
      \o FbConditionParam(condition)

\* a variant of the guard that gives up only when both are missing
FbCredentialsMissingBoth(c) == ~c.email /\ ~c.password

\* the guard at the top of _login_if_needed
FbCredentialsMissing(c) == ~c.email \/ ~c.password

\* "login" not in page.url
FbUrlHasLogin(url) == url = "login"
FbUrlHasCheckpoint(url) == url = "checkpoint"

\* A link element of the result page: href, and the title and price lines of its text
FbCards ==
    {[href |-> "/marketplace/item/1", title |-> "Mountain bike", price |-> "$50"],
     [href |-> "https://www.facebook.com/marketplace/item/2", title |-> "none", price |-> "none"],
     [href |-> "none", title |-> "Old sofa", price |-> "$10"]}

FbAbsolute(href) ==
    IF href = "https://www.facebook.com/marketplace/item/2" THEN <<href>>
    ELSE <<"https://www.facebook.com", href>>

\* one element of the selector path (lines 273-325): no href, no product
FbProductFromElement(card) ==
    IF card.href = "none" THEN <<>>
    ELSE <<[title |-> IF card.title = "none" THEN "Facebook Marketplace Item" ELSE card.title,
            price |-> IF card.price = "none" THEN "0" ELSE card.price,
            url |-> FbAbsolute(card.href), urlKey |-> "link", source |-> "facebook"]>>

RECURSIVE FbProductsFromElements(_)
FbProductsFromElements(cards) ==
    IF cards = <<>> THEN <<>>
    ELSE FbProductFromElement(Head(cards)) \o FbProductsFromElements(Tail(cards))

\* A result page: whether a "no results" message shows, and the item links on it
FbPages == [noResults : BOOLEAN, cards : SeqsUpTo(FbCards, MaxLinks)]

NoCall == [entryIndicator |-> FALSE, navs |-> 0, fills |-> 0, submits |-> 0,
           prompts |-> 0, result |-> "none"]

\* _search_with_browser's outer except and finally: products is returned as it stands
FbAbort(step) ==
    /\ f_pc' = "done"
    /\ f_raised' = f_raised \cup {step}
    /\ f_result' = Returned(f_products)

\* search: logging, then _search_with_browser
FbSearch(keywords, max_price, condition) ==
    /\ UNCHANGED f_steps
    /\ active = "none"
    /\ f_pc = "idle"
    /\ active' = "facebook"
    /\ f_in' = [keywords |-> keywords, max_price |-> max_price, condition |-> condition]
    /\ f_pc' = "launch"
    /\ UNCHANGED <<f_url, f_indicator, f_ret, f_call, f_logins, f_search_url, f_products,
                   f_raised, f_result, ebayVars, neweggVars, sessionVars, utilVars>>

\* makedirs, launch_persistent_context, new_page
FbLaunch(ok) ==
    /\ UNCHANGED f_steps
    /\ active = "facebook"
    /\ f_pc = "launch"
    /\ IF ok
       THEN f_pc' = "navigate" /\ UNCHANGED <<f_raised, f_result>>
       ELSE FbAbort("launch")
    /\ UNCHANGED <<active, f_in, f_url, f_indicator, f_ret, f_call, f_logins, f_search_url,
                   f_products, ebayVars, neweggVars, sessionVars, utilVars>>

\* goto marketplace; on an error goto the home page; the site may redirect to its
\* login page, and shows the logged-in indicators as it sees fit
\*   how = "direct": first goto worked; "fallback": it raised and the second worked;
\*   "fail": both raised
FbNavigate(how, url, indicator) ==
    /\ UNCHANGED f_steps
    /\ active = "facebook"
    /\ f_pc = "navigate"
    /\ CASE how = "direct" ->
              /\ url \in {"marketplace", "login"}
              /\ f_url' = url /\ f_indicator' = indicator
              /\ f_pc' = "login" /\ f_ret' = "first"
              /\ UNCHANGED <<f_raised, f_result>>
         [] how = "fallback" ->
              /\ url \in {"home", "login"}
              /\ f_url' = url /\ f_indicator' = indicator
              /\ f_pc' = "login" /\ f_ret' = "first"
              /\ f_raised' = f_raised \cup {"goto_marketplace"}
              /\ UNCHANGED f_result
         [] OTHER ->
              /\ url = "blank" /\ indicator = FALSE
              /\ FbAbort("navigate")
              /\ UNCHANGED <<f_url, f_indicator, f_ret>>
    /\ UNCHANGED <<active, f_in, f_call, f_logins, f_search_url, f_products,
                   ebayVars, neweggVars, sessionVars, utilVars>>

\* _login_if_needed returns r to its caller in _search_with_browser, which ignores
\* the value: after the first call the search URL is opened, after the second the
\* result page is read
\* a variant of the caller that gives up the search when the login call fails
FbAfterLoginAborting(ret, r) ==
    IF r = "false" THEN "done" ELSE IF ret = "first" THEN "open_search" ELSE "extract"

\* where _search_with_browser goes on after a _login_if_needed call returned r:
\* both call sites drop the value
FbAfterLogin(ret, r) == IF ret = "first" THEN "open_search" ELSE "extract"

FbLoginReturns(call, r) ==
    /\ f_logins' = Append(f_logins, [call EXCEPT !.result = r])
    /\ f_call' = NoCall
    /\ f_pc' = FbAfterLogin(f_ret, r)

\* _login_if_needed, lines 369-376: the credentials guard
FbLoginCredentials ==
    /\ UNCHANGED f_steps
    /\ active = "facebook"
    /\ f_pc = "login"
    /\ IF FbCredentialsMissing(creds)
       THEN FbLoginReturns([NoCall EXCEPT !.entryIndicator = f_indicator], "false")
       ELSE /\ f_pc' = "login_check"
            /\ f_call' = [NoCall EXCEPT !.entryIndicator = f_indicator]
            /\ UNCHANGED f_logins
    /\ UNCHANGED <<active, f_in, f_url, f_indicator, f_ret, f_search_url, f_products,
                   f_raised, f_result, ebayVars, neweggVars, sessionVars, utilVars>>

\* lines 378-455: screenshot, the logged-in indicators, the login page, its form
\*   "checked": the steps ran; "raises": the screenshot or page.goto raised;
\*   "no_form": the login form elements were not found
FbLoginCheck(outcome) ==
    /\ UNCHANGED f_steps
    /\ active = "facebook"
    /\ f_pc = "login_check"
    /\ CASE outcome = "raises" ->
              /\ FbLoginReturns(f_call, "false")
              /\ f_raised' = f_raised \cup {"login"}
              /\ UNCHANGED f_url
         [] outcome = "checked" /\ f_indicator ->
              /\ FbLoginReturns(f_call, "true")
              /\ UNCHANGED <<f_url, f_raised>>
         [] outcome = "checked" /\ ~f_indicator ->
              /\ f_pc' = "login_form"
              /\ f_url' = "login"
              /\ f_call' = [f_call EXCEPT !.navs = IF FbUrlHasLogin(f_url) THEN 0 ELSE 1]
              /\ UNCHANGED <<f_logins, f_raised>>
         [] OTHER ->
              /\ ~f_indicator
              /\ FbLoginReturns([f_call EXCEPT !.navs = IF FbUrlHasLogin(f_url) THEN 0 ELSE 1],
                                "false")
              /\ f_url' = "login"
              /\ UNCHANGED f_raised
    /\ UNCHANGED <<active, f_in, f_indicator, f_ret, f_search_url, f_products,
                   f_result, ebayVars, neweggVars, sessionVars, utilVars>>

\* a variant that also prompts when the submission left the page on the login URL
FbPromptsOperatorOnLogin(url) == FbUrlHasCheckpoint(url) \/ FbUrlHasLogin(url)

\* line 517: with no success indicator found, the operator is prompted when the
\* URL after the submission holds "checkpoint"
FbPromptsOperator(url) == FbUrlHasCheckpoint(url)

\* lines 457-514: fill the form, click, wait, then decide from the URL and the
\* success indicators; the site answers the submission as it sees fit
\*   answer "accepted": leaves the login URL; "rejected": stays on it;
\*   "checkpoint": moves to a checkpoint URL; "raises": fill or click raised;
\*   "accepted_raises": accepted, and the screenshot after the submission raised
FbLoginSubmit(answer, indicator) ==
    /\ UNCHANGED f_steps
    /\ active = "facebook"
    /\ f_pc = "login_form"
    /\ CASE answer = "raises" ->
              /\ indicator = FALSE
              /\ FbLoginReturns([f_call EXCEPT !.fills = 1], "false")
              /\ f_raised' = f_raised \cup {"login"}
              /\ UNCHANGED <<f_url, f_indicator, profile>>
         [] answer = "accepted" ->
              /\ f_url' = "home" /\ f_indicator' = indicator /\ profile' = TRUE
              /\ FbLoginReturns([f_call EXCEPT !.fills = 1, !.submits = 1], "true")
              /\ UNCHANGED f_raised
         [] answer = "accepted_raises" ->
              /\ indicator = FALSE
              /\ f_url' = "home" /\ f_indicator' = indicator /\ profile' = TRUE
              /\ FbLoginReturns([f_call EXCEPT !.fills = 1, !.submits = 1], "false")
              /\ f_raised' = f_raised \cup {"login"}
         [] OTHER ->
              /\ f_url' = (IF answer = "rejected" THEN "login" ELSE "checkpoint")
              /\ f_indicator' = indicator
              /\ IF indicator
                 THEN FbLoginReturns([f_call EXCEPT !.fills = 1, !.submits = 1], "true")
                 ELSE IF FbPromptsOperator(f_url')
                 THEN /\ f_pc' = "checkpoint"
                      /\ f_call' = [f_call EXCEPT !.fills = 1, !.submits = 1]
                      /\ UNCHANGED f_logins
                 ELSE FbLoginReturns([f_call EXCEPT !.fills = 1, !.submits = 1], "false")
              /\ UNCHANGED <<f_raised, profile>>
    /\ UNCHANGED <<active, f_in, f_ret, f_search_url, f_products, f_result,
                   ebayVars, neweggVars, creds, cookies_file, restores, r_ctx, r_last, utilVars>>

\* lines 516-559: the operator presses ENTER at the checkpoint prompt; the page is
\* then wherever the operator's verification left it
FbLoginCheckpoint(url, indicator, ok) ==
    /\ UNCHANGED f_steps
    /\ active = "facebook"
    /\ f_pc = "checkpoint"
    /\ url \in {"home", "checkpoint"}
    /\ f_url' = url /\ f_indicator' = indicator
    /\ profile' = (profile \/ url = "home")
    /\ IF ok
       THEN /\ FbLoginReturns([f_call EXCEPT !.prompts = 1],
                              IF indicator \/ (~FbUrlHasLogin(url) /\ ~FbUrlHasCheckpoint(url))
                              THEN "true" ELSE "false")
            /\ UNCHANGED f_raised
       ELSE /\ FbLoginReturns([f_call EXCEPT !.prompts = 1], "false")
            /\ f_raised' = f_raised \cup {"login"}
    /\ UNCHANGED <<active, f_in, f_ret, f_search_url, f_products, f_result,
                   ebayVars, neweggVars, creds, cookies_file, restores, r_ctx, r_last, utilVars>>

\* lines 104-142: open the search URL, then the second _login_if_needed; when the
\* goto raises, the search box is tried instead and the login call is skipped
FbOpenSearch(ok, url, indicator) ==
    /\ active = "facebook"
    /\ f_pc = "open_search"
    /\ f_search_url' = FbSearchUrl(f_in.keywords, f_in.max_price, f_in.condition)
    /\ IF ok
       THEN /\ url \in {"search", "login"}
            /\ f_url' = url /\ f_indicator' = indicator
            /\ f_pc' = "login" /\ f_ret' = "second"
            /\ f_steps' = Append(f_steps, "goto_search")
            /\ UNCHANGED f_raised
       ELSE /\ url = f_url /\ indicator = f_indicator
            /\ f_pc' = "extract"
            /\ f_raised' = f_raised \cup {"goto_search"}
            /\ f_steps' = f_steps \o <<"goto_search", "search_box">>
            /\ UNCHANGED <<f_url, f_indicator, f_ret>>
    /\ UNCHANGED <<active, f_in, f_call, f_logins, f_products, f_result,
                   ebayVars, neweggVars, sessionVars, utilVars>>

\* lines 144-344: read the result page and leave the browser
\*   "ok": the steps ran; "screenshot_raises": the screenshot before extraction
\*   raised; "close_raises": leaving the playwright block raised after extraction
FbExtract(outcome, page) ==
    /\ active = "facebook"
    /\ f_pc = "extract"
    /\ f_pc' = "done"
    /\ f_steps' = Append(f_steps, "extract")
    /\ CASE outcome = "screenshot_raises" ->
              /\ page = [noResults |-> FALSE, cards |-> <<>>]
              /\ f_raised' = f_raised \cup {"screenshot"}
              /\ UNCHANGED f_products
         [] outcome = "close_raises" ->
              /\ f_raised' = f_raised \cup {"close"}
              /\ f_products' = IF page.noResults THEN <<>> ELSE FbProductsFromElements(page.cards)
         [] OTHER ->
              /\ f_products' = IF page.noResults THEN <<>> ELSE FbProductsFromElements(page.cards)
              /\ UNCHANGED f_raised
    /\ f_result' = Returned(f_products')
    /\ UNCHANGED <<active, f_in, f_url, f_indicator, f_ret, f_call, f_logins, f_search_url,
                   ebayVars, neweggVars, sessionVars, utilVars>>

FbIdleIn == [keywords |-> <<>>, max_price |-> None, condition |-> "None"]

\* the argument lists the social-marketplace search is exercised with
FbArguments ==
    {[keywords |-> <<"a">>, max_price |-> None, condition |-> "None"],
     [keywords |-> <<"a", " ", "a">>, max_price |-> PriceFloat(1999), condition |-> "NEW"],
     [keywords |-> <<"a", " ", "a">>, max_price |-> PriceInt(100), condition |-> "Used"],
     [keywords |-> <<"a">>, max_price |-> PriceInt(0), condition |-> "refurbished"]}

\* the aggregator takes the list; the browser is closed, its profile directory stays
FbReturn ==
    /\ active = "facebook"
    /\ f_pc = "done"
    /\ active' = "none"
    /\ f_pc' = "idle"
    /\ f_in' = FbIdleIn
    /\ f_url' = "blank"
    /\ f_indicator' = FALSE
    /\ f_ret' = "first"
    /\ f_call' = NoCall
    /\ f_logins' = <<>>
    /\ f_search_url' = <<>>
    /\ f_products' = <<>>
    /\ f_raised' = {}
    /\ f_result' = Pending
    /\ f_steps' = <<>>
    /\ UNCHANGED <<ebayVars, neweggVars, sessionVars, utilVars>>

FbInit ==
    /\ f_pc = "idle"
    /\ f_in = FbIdleIn
    /\ f_url = "blank"
    /\ f_indicator = FALSE
    /\ f_ret = "first"
    /\ f_call = NoCall
    /\ f_logins = <<>>
    /\ f_search_url = <<>>
    /\ f_products = <<>>
    /\ f_raised = {}
    /\ f_result = Pending
    /\ f_steps = <<>>

FbNext ==
    \/ \E a \in FbArguments : FbSearch(a.keywords, a.max_price, a.condition)
    \/ \E ok \in BOOLEAN : FbLaunch(ok)
    \/ \E how \in {"direct", "fallback", "fail"},
          url \in {"marketplace", "home", "login", "blank"}, i \in BOOLEAN :
          FbNavigate(how, url, i)
    \/ FbLoginCredentials
    \/ \E o \in {"checked", "raises", "no_form"} : FbLoginCheck(o)
    \/ \E a \in {"accepted", "accepted_raises", "rejected", "checkpoint", "raises"},
          i \in BOOLEAN : FbLoginSubmit(a, i)
    \/ \E url \in {"home", "checkpoint"}, i \in BOOLEAN, ok \in BOOLEAN :
          FbLoginCheckpoint(url, i, ok)
    \/ \E ok \in BOOLEAN, url \in {"search", "login", "home", "marketplace", "checkpoint"},
          i \in BOOLEAN : FbOpenSearch(ok, url, i)
    \/ f_pc = "extract" /\
         \E o \in {"ok", "screenshot_raises", "close_raises"}, page \in FbPages :
            FbExtract(o, page)
    \/ FbReturn

-----------------------------------------------------------------------------
(* Session restore: FacebookMarketplaceScraper._restore_session *)

CookieNames == {"c_user", "xs", "datr"}

NoCookiesFile == [kind |-> "missing", cookies |-> <<>>]

\* What self.cookies_file can hold: no file; a file that cannot be opened; text
\* that is no JSON; a JSON scalar (a non-zero number); a JSON list of cookies
\* (null, 0, "" and [] all count as the empty list: they are falsy)
CookieFiles ==
    {[kind |-> k, cookies |-> <<>>] : k \in {"missing", "unreadable", "malformed", "scalar"}}
      \cup {[kind |-> "list", cookies |-> c] : c \in SeqsUpTo(CookieNames, MaxCookies)}

NoRestore == [result |-> "none", adds |-> 0, injected |-> {}]

SeqRange(q) == {q[i] : i \in 1..Len(q)}

\* a variant that reports success for any file that parses to a list
RestoreResultLenient(file, accepts) ==
    IF file.kind = "list" THEN "true" ELSE "false"

\* the value _restore_session returns, given whether context.add_cookies accepts
\* the cookies: any exception inside is caught and gives False
RestoreResult(file, accepts) ==
    IF file.kind = "missing" THEN "false"
    ELSE IF file.kind \in {"unreadable", "malformed", "scalar"} THEN "false"
    ELSE IF file.cookies = <<>> THEN "false"
    ELSE IF accepts THEN "true" ELSE "false"

\* whether _restore_session reaches its context.add_cookies call
RestoreCallsAddCookies(file) == file.kind = "list" /\ file.cookies # <<>>

RestoreSession(accepts) ==
    /\ active = "none"
    /\ restores < MaxRestores
    /\ restores' = restores + 1
    /\ IF RestoreCallsAddCookies(cookies_file)
       THEN /\ r_ctx' = IF accepts THEN r_ctx \cup SeqRange(cookies_file.cookies) ELSE r_ctx
            /\ r_last' = [result |-> RestoreResult(cookies_file, accepts), adds |-> 1,
                          injected |-> IF accepts THEN SeqRange(cookies_file.cookies) ELSE {}]
       ELSE /\ accepts
            /\ r_last' = [result |-> RestoreResult(cookies_file, accepts), adds |-> 0,
                          injected |-> {}]
            /\ UNCHANGED r_ctx
    /\ UNCHANGED <<active, ebayVars, neweggVars, fbVars, creds, profile, cookies_file, utilVars>>

RestoreNext == \E accepts \in BOOLEAN : RestoreSession(accepts)

-----------------------------------------------------------------------------
(* The extractors, one listing container at a time *)

\* Listing containers of an auction result page
EbayContainers ==
    [title : {"Laptop", "  ", "Shop on eBay", "none"},
     price : {"$99.99", "See price", "none"},
     href : {"https://www.ebay.com/itm/1", "/itm/2", "none"},
     more : BOOLEAN]

\* Product cells of a retail result page
NeweggContainers ==
    [sponsored : BOOLEAN,
     title : {"Laptop", "  ", "none"},
     price : {PriceDollars, PriceThousands, PriceSplit, PriceSplitThousands,
              PriceOutOfStock, NoPriceElement},
     href : {"/p/1", "https://www.newegg.com/p/2", "none"}]

\* Item links of a marketplace result page
FbContainers ==
    [href : {"/marketplace/item/1", "https://www.facebook.com/marketplace/item/2", "none"},
     title : {"Mountain bike", "none"},
     price : {"$50", "none"}]

\* ebay.py _parse_search_results on a page with the one container
ExtractEbay(card) ==
    /\ x_extractor' = "ebay"
    /\ x_card' = card
    /\ x_out' = EbayParseListings(<<card>>)
    /\ UNCHANGED <<adapterVars, captchaVars, rankVars, aggVars, rateVars>>

\* newegg.py _parse_search_results on a page with the one cell
ExtractNeweggHtml(cell) ==
    /\ x_extractor' = "newegg_html"
    /\ x_card' = cell
    /\ x_out' = NeweggParseCells(<<cell>>)
    /\ UNCHANGED <<adapterVars, captchaVars, rankVars, aggVars, rateVars>>

\* newegg.py _extract_products_from_page on a page with the one cell
ExtractNeweggBrowser(cell) ==
    /\ x_extractor' = "newegg_browser"
    /\ x_card' = cell
    /\ x_out' = NeweggExtractProductsFromPage(<<cell>>)
    /\ UNCHANGED <<adapterVars, captchaVars, rankVars, aggVars, rateVars>>

\* facebook.py: the product loop on the one link
ExtractFb(card) ==
    /\ x_extractor' = "facebook"
    /\ x_card' = card
    /\ x_out' = FbProductsFromElements(<<card>>)
    /\ UNCHANGED <<adapterVars, captchaVars, rankVars, aggVars, rateVars>>

ExtractIdle ==
    /\ x_extractor = "none"
    /\ x_card = [title |-> "none"]
    /\ x_out = <<>>

ExtractNext ==
    \/ \E card \in EbayContainers : ExtractEbay(card)
    \/ \E cell \in NeweggContainers : ExtractNeweggHtml(cell)
    \/ \E cell \in NeweggContainers : ExtractNeweggBrowser(cell)
    \/ \E card \in FbContainers : ExtractFb(card)

-----------------------------------------------------------------------------
(* The extractors on whole documents: container discovery, then the loop *)

\* a variant that lets the last selector with matches win
RECURSIVE LastMatch(_)
LastMatch(matches) ==
    IF matches = <<>> THEN <<>>
    ELSE IF LastMatch(Tail(matches)) # <<>> THEN LastMatch(Tail(matches))
    ELSE Head(matches)

\* "a or b or c" over selector results, and the for/break loop over the
\* alternative selectors: the matches of the first selector that has any
RECURSIVE FirstMatch(_)
FirstMatch(matches) ==
    IF matches = <<>> THEN <<>>
    ELSE IF Head(matches) # <<>> THEN Head(matches)
    ELSE FirstMatch(Tail(matches))

\* ebay.py: the primary selector and the alternatives, in the order tried
EbayListingSelectors ==
    <<"li.s-item", ".srp-results .s-item", ".srp-list .s-item", "[data-view='mi:1686|iid:1']">>

\* newegg.py _parse_search_results: the primary selector and the alternatives
NeweggCellSelectors ==
    <<".item-cell", "div.product-card", "div.product-item", "div.item-card", "div.card-item",
      "div.product-main", "div[class*='product-'][class*='-card']", "div[class*='item-container']",
      "div[class*='item']", "div.product-view", "div.product-container", ".product-item-info",
      "div:has(img)">>

\* newegg.py _extract_products_from_page: the three selectors, in the order tried
NeweggContainerSelectors == <<".item-cell", ".item-container", "[class*='product-card']">>

EbayGoodA == [title |-> "Laptop", price |-> "$99.99", href |-> "https://www.ebay.com/itm/1",
              more |-> FALSE]
EbayGoodB == [title |-> "Phone", price |-> "$20.00", href |-> "https://www.ebay.com/itm/2",
              more |-> FALSE]

\* Containers of an auction page: two usable listings, the promotional cards
\* (a "Shop on eBay" title in another letter case, an empty title, the "More
\* items like this" text), a listing without a price element and one whose
\* link element has no href
EbayDocCards ==
    {EbayGoodA, EbayGoodB,
     [EbayGoodA EXCEPT !.title = "SHOP ON EBAY"],
     [EbayGoodA EXCEPT !.title = "  "],
     [EbayGoodB EXCEPT !.more = TRUE],
     [EbayGoodB EXCEPT !.price = "none"],
     [EbayGoodA EXCEPT !.href = NoHrefAttribute]}

\* An auction response: whether its text holds "robot" or "captcha", and what
\* each selector of EbayListingSelectors matches
EbayDocuments ==
    {[robot |-> r, matches |-> <<p, a, b, c>>] :
        r \in BOOLEAN, p \in SeqsUpTo(EbayDocCards, MaxListings),
        a \in {<<>>, <<EbayGoodA>>}, b \in {<<>>, <<EbayGoodB>>},
        c \in {<<>>, <<EbayGoodA, EbayGoodB>>}}

\* the containers the loop of ebay.py _parse_search_results runs over
EbaySelectListings(matches) ==
    IF Head(matches) # <<>> THEN Head(matches) ELSE FirstMatch(Tail(matches))

NeweggGoodA == [sponsored |-> FALSE, title |-> "Laptop", price |-> PriceDollars, href |-> "/p/1"]
NeweggGoodB == [sponsored |-> FALSE, title |-> "Phone", price |-> PriceThousands,
                href |-> "https://www.newegg.com/p/2"]

\* Cells of a retail page: two usable cells, a sponsored one, one without a
\* price element and one whose price text holds no number
NeweggDocCells ==
    {NeweggGoodA, NeweggGoodB,
     [NeweggGoodA EXCEPT !.sponsored = TRUE],
     [NeweggGoodB EXCEPT !.price = NoPriceElement],
     [NeweggGoodA EXCEPT !.price = PriceOutOfStock]}

\* what the selectors after the first match: the i-th and the j-th each match
\* one cell, the others nothing (0 for neither)
NeweggAlternativeMatches(n, i, j) ==
    [k \in 1..n |-> IF k = i THEN <<NeweggGoodA>> ELSE IF k = j THEN <<NeweggGoodB>> ELSE <<>>]

\* A retail response body: the vocabulary flag, what each selector of
\* NeweggCellSelectors matches, and the div ancestors of the elements whose
\* text holds a dollar sign (the last resort)
NeweggDocuments ==
    {[vocab |-> v, matches |-> <<p>> \o NeweggAlternativeMatches(Len(NeweggCellSelectors) - 1, i, j),
      priceParents |-> g] :
        v \in BOOLEAN, p \in SeqsUpTo(NeweggDocCells, MaxListings),
        i \in 0..(Len(NeweggCellSelectors) - 1),
        j \in {0, 1, Len(NeweggCellSelectors) - 1},
        g \in {<<>>, <<NeweggGoodB>>}}

\* the cells the loop of newegg.py _parse_search_results runs over
NeweggSelectCells(matches, priceParents) ==
    IF Head(matches) # <<>> THEN Head(matches)
    ELSE IF FirstMatch(Tail(matches)) # <<>> THEN FirstMatch(Tail(matches))
    ELSE priceParents

\* A retail page in the browser: what each selector of NeweggContainerSelectors matches
NeweggPageDocuments ==
    {[matches |-> <<p, a, b>>] :
        p \in SeqsUpTo(NeweggDocCells, MaxListings),
        a \in {<<>>, <<NeweggGoodA>>}, b \in {<<>>, <<NeweggGoodB>>}}

\* the containers the loop of _extract_products_from_page runs over
NeweggSelectContainers(matches) == FirstMatch(matches)

\* ebay.py _parse_search_results on a response body
ParseEbayDocument(doc) ==
    /\ x_extractor = "none"
    /\ x_extractor' = "ebay"
    /\ x_card' = [document |-> doc, containers |-> EbaySelectListings(doc.matches)]
    /\ x_out' = EbayParseSearchResults([robot |-> doc.robot,
                                        listings |-> EbaySelectListings(doc.matches)])
    /\ UNCHANGED <<adapterVars, captchaVars, rankVars, aggVars, rateVars>>

\* newegg.py _try_regular_request on a response body
ParseNeweggDocument(doc) ==
    /\ x_extractor = "none"
    /\ x_extractor' = "newegg_html"
    /\ x_card' = [document |-> doc,
                  containers |-> NeweggSelectCells(doc.matches, doc.priceParents)]
    /\ x_out' = NeweggTryRegularResponse(
                    [vocab |-> doc.vocab, challenge |-> FALSE,
                     cells |-> NeweggSelectCells(doc.matches, doc.priceParents)])
    /\ UNCHANGED <<adapterVars, captchaVars, rankVars, aggVars, rateVars>>

\* newegg.py _extract_products_from_page on a page
ParseNeweggPage(doc) ==
    /\ x_extractor = "none"
    /\ x_extractor' = "newegg_browser"
    /\ x_card' = [document |-> doc, containers |-> NeweggSelectContainers(doc.matches)]
    /\ x_out' = NeweggExtractProductsFromPage(NeweggSelectContainers(doc.matches))
    /\ UNCHANGED <<adapterVars, captchaVars, rankVars, aggVars, rateVars>>

\* The lines of a link element's inner text (stripped, non-empty): the text,
\* its length and whether it holds a dollar sign
FbLines ==
    {[text |-> "Mountain bike", chars |-> 13, dollar |-> FALSE],
     [text |-> "iPad", chars |-> 4, dollar |-> FALSE],
     [text |-> "$50", chars |-> 3, dollar |-> TRUE],
     [text |-> "Bikes from $50", chars |-> 14, dollar |-> TRUE]}

\* the shortest line the title loop accepts is longer than this
FbTitleMinChars == 5

\* "for line in lines: if '$' not in line and len(line) > 5": the first such
\* line, "none" when there is none (title stays None)
FbTitleOfLines(lines) ==
    LET hits == {i \in 1..Len(lines) : ~lines[i].dollar /\ lines[i].chars > FbTitleMinChars}
    IN  IF hits = {} THEN "none"
        ELSE lines[CHOOSE i \in hits : \A j \in hits : i <= j].text

\* the price loop: the first line with a dollar amount ("$50" in both price lines)
FbPriceOfLines(lines) ==
    IF \E i \in 1..Len(lines) : lines[i].dollar THEN "$50" ELSE "none"

\* A link element of the result page: its href and its text lines
FbElements ==
    [href : {"/marketplace/item/1", "none"}, lines : SeqsUpTo(FbLines, MaxLines)]

\* facebook.py: one pass of the product loop over a link element
ParseFbElement(element) ==
    /\ x_extractor = "none"
    /\ x_extractor' = "facebook"
    /\ x_card' = [document |-> element, containers |-> <<>>]
    /\ x_out' = FbProductFromElement([href |-> element.href,
                                      title |-> FbTitleOfLines(element.lines),
                                      price |-> FbPriceOfLines(element.lines)])
    /\ UNCHANGED <<adapterVars, captchaVars, rankVars, aggVars, rateVars>>

\* the caller takes the list; the next document starts from scratch
ParseDone ==
    /\ x_extractor # "none"
    /\ x_extractor' = "none"
    /\ x_card' = [title |-> "none"]
    /\ x_out' = <<>>
    /\ UNCHANGED <<adapterVars, captchaVars, rankVars, aggVars, rateVars>>

\* one document at a time
DocumentNext ==
    \/ x_extractor = "none" /\ \E doc \in EbayDocuments : ParseEbayDocument(doc)
    \/ x_extractor = "none" /\ \E doc \in NeweggDocuments : ParseNeweggDocument(doc)
    \/ x_extractor = "none" /\ \E doc \in NeweggPageDocuments : ParseNeweggPage(doc)
    \/ x_extractor = "none" /\ \E element \in FbElements : ParseFbElement(element)
    \/ ParseDone

-----------------------------------------------------------------------------
(* Condition inference: FacebookMarketplaceScraper._extract_condition *)

\* the words a card's text is made of
ConditionWords == {"like", "new", "good", "fair", "poor", "used", "condition", "bike"}

\* "phrase in text" on lower-cased text, word by word
HasPhrase(text, phrase) ==
    \E i \in 1..(Len(text) - Len(phrase) + 1) : SubSeq(text, i, i + Len(phrase) - 1) = phrase

\* the texts of the span elements a card may hold
SpanTexts == {<<"new">>, <<"like", "new">>, <<"used">>, <<"good">>, <<"bike">>}

\* A result card: its span elements in document order, the text outside them,
\* and whether the element handle is stale (every query on it raises)
FbConditionCards ==
    [spans : SeqsUpTo(SpanTexts, MaxSpans), other : SeqsUpTo(ConditionWords, MaxWords),
     detached : BOOLEAN]

RECURSIVE Flatten(_)
Flatten(texts) == IF texts = <<>> THEN <<>> ELSE Head(texts) \o Flatten(Tail(texts))

\* card.inner_text().lower()
FbCardText(card) == Flatten(card.spans) \o card.other

\* condition_selectors, in the order tried: span:has-text('New'), ('Used'), ...
FbConditionSelectors ==
    <<(<<"new">>), (<<"used">>), (<<"like", "new">>), (<<"good">>), (<<"fair">>), (<<"poor">>)>>

\* card.query_selector("span:has-text(...)"): the first span holding the phrase
\* (letter case ignored), <<>> for no element
FbQuerySpan(spans, phrase) ==
    LET hits == {i \in 1..Len(spans) : HasPhrase(spans[i], phrase)}
    IN  IF hits = {} THEN <<>>
        ELSE spans[CHOOSE i \in hits : \A j \in hits : i <= j]

\* the if/elif chain on the text of the element found (lines 587-598)
FbConditionOfSpan(text) ==
    IF HasPhrase(text, <<"new">>) THEN "New"
    ELSE IF HasPhrase(text, <<"like", "new">>) THEN "Like New"
    ELSE IF HasPhrase(text, <<"good">>) THEN "Good"
    ELSE IF HasPhrase(text, <<"fair">>) THEN "Fair"
    ELSE IF HasPhrase(text, <<"poor">>) THEN "Poor"
    ELSE IF HasPhrase(text, <<"used">>) THEN "Used"
    ELSE "none"

\* the loop over the selectors: the first element whose text settles a condition
RECURSIVE FbConditionFromSelectors(_, _)
FbConditionFromSelectors(spans, selectors) ==
    IF selectors = <<>> THEN "none"
    ELSE LET elem == FbQuerySpan(spans, Head(selectors))
         IN  IF elem # <<>> /\ FbConditionOfSpan(elem) # "none" THEN FbConditionOfSpan(elem)
             ELSE FbConditionFromSelectors(spans, Tail(selectors))

\* the if/elif chain on the whole card text (lines 603-614)
FbConditionOfText(text) ==
    IF HasPhrase(text, <<"new">>) THEN "New"
    ELSE IF HasPhrase(text, <<"like", "new">>) THEN "Like New"
    ELSE IF HasPhrase(text, <<"good", "condition">>) THEN "Good"
    ELSE IF HasPhrase(text, <<"fair", "condition">>) THEN "Fair"
    ELSE IF HasPhrase(text, <<"poor", "condition">>) THEN "Poor"
    ELSE IF HasPhrase(text, <<"used">>) THEN "Used"
    ELSE "none"

\* _extract_condition: selectors, then the card text, then "Not specified";
\* an exception anywhere ends in "Not specified" as well
FbExtractCondition(card) ==
    IF card.detached THEN "Not specified"
    ELSE IF FbConditionFromSelectors(card.spans, FbConditionSelectors) # "none"
         THEN FbConditionFromSelectors(card.spans, FbConditionSelectors)
    ELSE IF FbConditionOfText(FbCardText(card)) # "none"
         THEN FbConditionOfText(FbCardText(card))
    ELSE "Not specified"

ExtractCondition(card) ==
    /\ x_extractor = "none"
    /\ x_extractor' = "facebook_condition"
    /\ x_card' = card
    /\ x_out' = <<FbExtractCondition(card)>>
    /\ UNCHANGED <<adapterVars, captchaVars, rankVars, aggVars, rateVars>>

ConditionNext ==
    \/ x_extractor = "none" /\ \E card \in FbConditionCards : ExtractCondition(card)
    \/ ParseDone

-----------------------------------------------------------------------------
(* The search URLs as functions of the arguments *)

\* ebay.py search, lines 26-41: the primary URL for the arguments (no URL when
\* the price format raises)
BuildEbayUrl(keywords, max_price, condition, location) ==
    /\ x_extractor = "none"
    /\ ~(Truthy(max_price) /\ Fixed2Raises(max_price))
    /\ x_extractor' = "ebay_url"
    /\ x_card' = [keywords |-> keywords, max_price |-> max_price, condition |-> condition,
                  location |-> location]
    /\ x_out' = EbayUrl(keywords, max_price, condition, location)
    /\ UNCHANGED <<adapterVars, captchaVars, rankVars, aggVars, rateVars>>

\* facebook.py _search_with_browser, lines 106-114: the search URL for the arguments
BuildFbUrl(keywords, max_price, condition) ==
    /\ x_extractor = "none"
    /\ x_extractor' = "facebook_url"
    /\ x_card' = [keywords |-> keywords, max_price |-> max_price, condition |-> condition]
    /\ x_out' = FbSearchUrl(keywords, max_price, condition)
    /\ UNCHANGED <<adapterVars, captchaVars, rankVars, aggVars, rateVars>>

QueryNext ==
    \/ x_extractor = "none" /\
         \E k \in KeywordInputs, p \in MaxPriceInputs, c \in ConditionInputs,
            l \in LocationInputs : BuildEbayUrl(k, p, c, l)
    \/ x_extractor = "none" /\
         \E k \in KeywordInputs, p \in MaxPriceInputs, c \in ConditionInputs :
            BuildFbUrl(k, p, c)
    \/ ParseDone

-----------------------------------------------------------------------------
(* Anti-bot detector: NeweggScraper._check_for_captcha *)

\* captcha_selectors, in the order they are tried
CaptchaSelectors ==
    <<".modal-content", "#captcha", "img[src*='captcha']", "div[class*='captcha']",
      "text='are you a human'", "text='verify you are a human'">>

\* captcha_indicators
CaptchaIndicators ==
    {"captcha", "robot", "verify you are a human", "are you a human", "security check"}

\* What page.wait_for_selector(selector, timeout=2000) and is_visible() give for
\* one selector: the wait raises ("timeout"), or an element comes back that is
\* not visible ("hidden") or visible ("visible")
SelectorStates == {"timeout", "hidden", "visible"}

\* Pieces of text page.content() can hold
ContentTokens ==
    {"CAPTCHA", "robots", "verify you are a human", "are you a human", "Security Check",
     "Laptop"}

\* `indicator in text` for a lower-cased piece of text
Contains(text, indicator) ==
    \/ text = indicator
    \/ text = "robots" /\ indicator = "robot"

\* any(indicator in content.lower()) over captcha_indicators
ContentHasIndicator(content) ==
    \E i \in 1..Len(content), indicator \in CaptchaIndicators :
        Contains(Lower(content[i]), indicator)

\* An element matched by a selector is part of the markup page.content() returns
PageConsistent(page) ==
    /\ \A k \in {2, 3, 4} : page.sel[k] # "timeout" =>
          \E i \in 1..Len(page.content) : Contains(Lower(page.content[i]), "captcha")
    /\ page.sel[5] # "timeout" =>
          \E i \in 1..Len(page.content) : page.content[i] = "are you a human"
    /\ page.sel[6] # "timeout" =>
          \E i \in 1..Len(page.content) : page.content[i] = "verify you are a human"

CaptchaPages ==
    {page \in [sel : [1..Len(CaptchaSelectors) -> SelectorStates],
               content : SeqsUpTo(ContentTokens, MaxContentLen)] : PageConsistent(page)}

NoCaptchaPage ==
    [sel |-> [k \in 1..Len(CaptchaSelectors) |-> "timeout"], content |-> <<>>]

\* one turn of the selector loop: a visible element gives True once its
\* screenshot is taken; a wait that raises, an element that is not visible, or
\* a screenshot that raises all fall through to the next selector
CaptchaProbe(shotOk) ==
    /\ c_result = "none"
    /\ c_i >= 1
    /\ c_i <= Len(CaptchaSelectors)
    /\ IF c_page.sel[c_i] = "visible"
       THEN IF shotOk
            THEN c_result' = "true" /\ UNCHANGED <<c_i, c_raised>>
            ELSE /\ c_i' = c_i + 1
                 /\ c_raised' = c_raised \cup {"screenshot"}
                 /\ UNCHANGED c_result
       ELSE /\ shotOk
            /\ c_i' = c_i + 1
            /\ c_raised' = IF c_page.sel[c_i] = "timeout"
                           THEN c_raised \cup {"wait_for_selector"} ELSE c_raised
            /\ UNCHANGED c_result
    /\ UNCHANGED <<c_page, adapterVars, extractVars, rankVars, aggVars, rateVars>>

\* after the loop: page.content() and the vocabulary; an exception gives False
CaptchaContent(contentOk) ==
    /\ c_result = "none"
    /\ c_i = Len(CaptchaSelectors) + 1
    /\ IF contentOk
       THEN /\ c_result' = IF ContentHasIndicator(c_page.content) THEN "true" ELSE "false"
            /\ UNCHANGED c_raised
       ELSE /\ c_result' = "false"
            /\ c_raised' = c_raised \cup {"content"}
    /\ UNCHANGED <<c_page, c_i, adapterVars, extractVars, rankVars, aggVars, rateVars>>

CaptchaIdle ==
    /\ c_page = NoCaptchaPage
    /\ c_i = 0
    /\ c_raised = {}
    /\ c_result = "none"

CaptchaNext ==
    \/ \E shotOk \in BOOLEAN : CaptchaProbe(shotOk)
    \/ \E contentOk \in BOOLEAN : CaptchaContent(contentOk)

-----------------------------------------------------------------------------
(* Ranking: utils/ai_helper.py rank_recommendations *)

\* a product's price as the adapters leave it: a float (retail, marketplace), the
\* text of the price element (auction), or no price key at all
FloatPrice(cents) == [kind |-> "float", cents |-> cents, text |-> ""]
TextPrice(text) == [kind |-> "str", cents |-> 0, text |-> text]
MissingPrice == [kind |-> "missing", cents |-> 0, text |-> ""]

RankProducts ==
    {[title |-> "Laptop", price |-> pr] :
        pr \in {FloatPrice(19999), FloatPrice(5000), TextPrice("$99.99"), MissingPrice}}

RankProductLists == UNION {[1..n -> RankProducts] : n \in 0..MaxProducts}

\* one object of the model's JSON array; "id" may be left out
RankItem(id) == [hasId |-> TRUE, id |-> id]
RankItemNoId == [hasId |-> FALSE, id |-> -1]

\* ids the model may name for n products: valid, negative, past the end
RankItems(n) == {RankItem(id) : id \in -1..n} \cup {RankItemNoId}

RankItemLists(n) == UNION {[1..m -> RankItems(n)] : m \in 0..MaxRankItems}

\* x.get('price', 9999) for the ascending sorts, x.get('price', 0) for the
\* descending one
PriceKey(product, desc) ==
    IF product.price.kind = "missing"
    THEN FloatPrice(IF desc THEN 0 ELSE 999900)
    ELSE product.price

\* Python's < on two keys of one type; text compares by code point
TextRank(text) ==
    CASE text = "$199.99" -> 1
      [] text = "$99.99" -> 2
      [] OTHER -> 3

KeyLess(a, b) ==
    IF a.kind = "str" THEN TextRank(a.text) < TextRank(b.text) ELSE a.cents < b.cents

\* < between a str and a number raises TypeError
SortRaises(products, desc) ==
    \E i, j \in 1..Len(products) :
        PriceKey(products[i], desc).kind # PriceKey(products[j], desc).kind

\* the sort is stable: i goes after every position it does not precede
RECURSIVE InsertByKey(_, _, _, _)
InsertByKey(products, order, i, desc) ==
    LET mine == PriceKey(products[i], desc)
        theirs == PriceKey(products[Head(order)], desc)
    IN  IF order = <<>> THEN <<i>>
        ELSE IF (IF desc THEN KeyLess(theirs, mine) ELSE KeyLess(mine, theirs))
             THEN <<i>> \o order
             ELSE <<Head(order)>> \o InsertByKey(products, Tail(order), i, desc)

RECURSIVE SortedOrder(_, _, _)
SortedOrder(products, n, desc) ==
    IF n = 0 THEN <<>>
    ELSE InsertByKey(products, SortedOrder(products, n - 1, desc), n, desc)

\* sorted(products, key=lambda x: x.get('price', 9999)) and list.sort(...)
SortByPrice(products, desc) ==
    IF SortRaises(products, desc)
    THEN [raised |-> TRUE, order |-> <<>>]
    ELSE [raised |-> FALSE, order |-> SortedOrder(products, Len(products), desc)]

ValidId(item, n) == item.hasId /\ 0 <= item.id /\ item.id < n

\* the positions the first loop appends, in the order the model named them
RECURSIVE RankedPositions(_, _)
RankedPositions(items, n) ==
    IF items = <<>> THEN <<>>
    ELSE (IF ValidId(Head(items), n) THEN <<Head(items).id + 1>> ELSE <<>>)
         \o RankedPositions(Tail(items), n)

\* the second loop: positions no item names (rank_item.get("id", -1) == i)
RECURSIVE MissedPositions(_, _, _)
MissedPositions(items, i, n) ==
    IF i > n THEN <<>>
    ELSE (IF \E j \in 1..Len(items) : items[j].id = i - 1 THEN <<>> ELSE <<i>>)
         \o MissedPositions(items, i + 1, n)

Reordered(items, n) == RankedPositions(items, n) \o MissedPositions(items, 1, n)

\* rank_item["id"] raises KeyError on an object without "id"
StrictRaises(items) == \E j \in 1..Len(items) : ~items[j].hasId

Picked(products, order) == [i \in 1..Len(order) |-> products[order[i]]]

RankReturn(order) ==
    /\ k_pc' = "done"
    /\ k_order' = order
    /\ k_result' = Returned(Picked(k_products, order))

RankRaise ==
    /\ k_pc' = "done"
    /\ k_order' = <<>>
    /\ k_result' = Raised

\* the outer handler: sort by price and return; an exception of the sort leaves
\* the function
RankOuterHandler ==
    LET sorted == SortByPrice(k_products, FALSE)
    IN  IF sorted.raised THEN RankRaise ELSE RankReturn(sorted.order)

RankToFallback ==
    /\ k_pc' = "fallback"
    /\ UNCHANGED <<k_order, k_result>>

\* a list of at most one product is returned as it is
RankEnter ==
    /\ k_pc = "called"
    /\ IF Len(k_products) <= 1
       THEN RankReturn([i \in 1..Len(k_products) |-> i])
       ELSE k_pc' = "primary" /\ UNCHANGED <<k_order, k_result>>
    /\ UNCHANGED <<k_products, k_log>>
    /\ UNCHANGED <<adapterVars, captchaVars, extractVars, aggVars, rateVars>>

\* the call of the primary model and the handling of its reply
RankPrimary(kind, items) ==
    /\ k_pc = "primary"
    /\ k_log' = Append(k_log, [model |-> "primary", kind |-> kind, items |-> items])
    /\ CASE kind = "unavailable" -> RankToFallback
         [] kind = "json" ->
                IF StrictRaises(items) THEN RankToFallback
                ELSE RankReturn(Reordered(items, Len(k_products)))
         [] kind = "embedded" -> RankReturn(Reordered(items, Len(k_products)))
         [] OTHER ->
                LET sorted == SortByPrice(k_products, FALSE)
                IN  IF sorted.raised THEN RankToFallback ELSE RankReturn(sorted.order)
    /\ UNCHANGED k_products
    /\ UNCHANGED <<adapterVars, captchaVars, extractVars, aggVars, rateVars>>

\* the call of the fallback model; whatever goes wrong reaches the outer handler
RankFallback(kind, items) ==
    /\ k_pc = "fallback"
    /\ k_log' = Append(k_log, [model |-> "fallback", kind |-> kind, items |-> items])
    /\ IF kind = "json" /\ ~StrictRaises(items)
       THEN RankReturn(Reordered(items, Len(k_products)))
       ELSE RankOuterHandler
    /\ UNCHANGED k_products
    /\ UNCHANGED <<adapterVars, captchaVars, extractVars, aggVars, rateVars>>

\* what a model call gives: an exception ("unavailable"), text that is a JSON
\* array ("json"), text with a JSON array embedded in prose ("embedded"), or text
\* with no JSON in it ("nojson"); only the replies with an array carry items
RepliesFor(n) ==
    {[kind |-> kind, items |-> items] :
        kind \in {"json", "embedded"}, items \in RankItemLists(n)}
    \cup {[kind |-> kind, items |-> <<>>] : kind \in {"unavailable", "nojson"}}

RankIdle ==
    /\ k_pc = "done"
    /\ k_products = <<>>
    /\ k_log = <<>>
    /\ k_order = <<>>
    /\ k_result = Pending

RankNext ==
    \/ RankEnter
    \/ \E reply \in RepliesFor(Len(k_products)) : RankPrimary(reply.kind, reply.items)
    \/ \E reply \in RepliesFor(Len(k_products)) : RankFallback(reply.kind, reply.items)

-----------------------------------------------------------------------------
(* Aggregation: ui/app.py main, the search branch *)

Platforms == {"ebay", "facebook", "newegg"}
SortOrders == {"AI Recommendation", "Price (Low to High)", "Price (High to Low)"}

\* the slider "Maximum Results per Site" at its default
DefaultMaxResults == 20

\* the platforms ticked (at least one), the sort order and the budget
AggInputs ==
    [platforms : SUBSET Platforms \ {{}},
     sort_by : SortOrders,
     max_price : {PriceInt(100), PriceStr(100)}]

\* float() of the marketplace price text
FbPriceCents(text) == IF text = "$50" THEN 5000 ELSE 0

\* a record as the aggregator holds it, the price as a Python value
AsProduct(r, platform) ==
    CASE platform = "ebay" ->
            [title |-> r.title, price |-> TextPrice(r.price), url |-> <<r.url>>]
      [] platform = "facebook" ->
            [title |-> r.title, price |-> FloatPrice(FbPriceCents(r.price)),
             url |-> r.url, source |-> r.source]
      [] OTHER ->
            [title |-> r.title, price |-> FloatPrice(r.price),
             url |-> r.url, source |-> r.source]

AsProducts(records, platform) ==
    [i \in 1..Len(records) |-> AsProduct(records[i], platform)]

\* a result page with two complete listings, per platform
EbayTwoListings ==
    <<[title |-> "Laptop", price |-> "$99.99", href |-> "https://www.ebay.com/itm/1",
       more |-> FALSE],
      [title |-> "Phone", price |-> "$99.99", href |-> "https://www.ebay.com/itm/1",
       more |-> FALSE]>>

NeweggTwoCells ==
    <<[sponsored |-> FALSE, title |-> "Laptop", price |-> PriceDollars, href |-> "/p/1"],
      [sponsored |-> FALSE, title |-> "Phone", price |-> PriceThousands,
       href |-> "https://www.newegg.com/p/2"]>>

FbTwoLinks ==
    <<[href |-> "/marketplace/item/1", title |-> "Mountain bike", price |-> "$50"],
      [href |-> "https://www.facebook.com/marketplace/item/2", title |-> "none",
       price |-> "none"]>>

TwoRecords(platform) ==
    CASE platform = "ebay" -> AsProducts(EbayParseListings(EbayTwoListings), platform)
      [] platform = "facebook" -> AsProducts(FbProductsFromElements(FbTwoLinks), platform)
      [] OTHER -> AsProducts(NeweggParseCells(NeweggTwoCells), platform)

\* what a search hands back: nothing after a failure it caught, nothing because
\* nothing matched, or two records
HandBacks(platform) ==
    {[failed |-> TRUE, list |-> <<>>],
     [failed |-> FALSE, list |-> <<>>],
     [failed |-> FALSE, list |-> TwoRecords(platform)]}

\* only the auction adapter lets an exception out of search (a str budget)
SearchRaises(platform, max_price) ==
    platform = "ebay" /\ Truthy(max_price) /\ Fixed2Raises(max_price)

NextPlatform(platform) ==
    CASE platform = "ebay" -> "facebook"
      [] platform = "facebook" -> "newegg"
      [] OTHER -> "rank"

\* the handler at the end of the branch: st.error, nothing stored or displayed
AggError ==
    /\ g_pc' = "done"
    /\ g_shown' = Raised

\* all_results[:max_results*len(active_platforms)], stored and displayed
AggDisplay(list) ==
    LET cap == DefaultMaxResults * Cardinality(g_in.platforms)
    IN  /\ g_pc' = "done"
        /\ g_shown' = Returned(SubSeq(list, 1, IF Len(list) < cap THEN Len(list) ELSE cap))

\* steps 2 to 4: one platform's search, its records appended to all_results
AggSearch(back) ==
    /\ g_pc \in Platforms
    /\ IF g_pc \notin g_in.platforms
       THEN /\ g_pc' = NextPlatform(g_pc)
            /\ UNCHANGED <<g_failed, g_collected, g_all, g_shown>>
       ELSE IF SearchRaises(g_pc, g_in.max_price)
       THEN /\ AggError
            /\ UNCHANGED <<g_failed, g_collected, g_all>>
       ELSE /\ g_pc' = NextPlatform(g_pc)
            /\ g_failed' = IF back.failed THEN g_failed \cup {g_pc} ELSE g_failed
            /\ g_collected' = [g_collected EXCEPT ![g_pc] = back.list]
            /\ g_all' = g_all \o back.list
            /\ UNCHANGED g_shown
    /\ UNCHANGED g_in
    /\ UNCHANGED <<adapterVars, captchaVars, extractVars, rankVars, rateVars>>

\* step 5: more than three results are ranked by the model or sorted by price
AggRank ==
    /\ g_pc = "rank"
    /\ IF Len(g_all) > 3 /\ g_in.sort_by = "AI Recommendation"
       THEN /\ g_pc' = "ranking"
            /\ k_pc' = "called"
            /\ k_products' = g_all
            /\ k_log' = <<>>
            /\ k_order' = <<>>
            /\ k_result' = Pending
            /\ UNCHANGED <<g_all, g_shown>>
       ELSE IF Len(g_all) > 3
       THEN LET sorted == SortByPrice(g_all, g_in.sort_by = "Price (High to Low)")
            IN  /\ IF sorted.raised
                   THEN AggError /\ UNCHANGED g_all
                   ELSE /\ g_all' = Picked(g_all, sorted.order)
                        /\ AggDisplay(Picked(g_all, sorted.order))
                /\ UNCHANGED rankVars
       ELSE /\ AggDisplay(g_all)
            /\ UNCHANGED <<g_all, rankVars>>
    /\ UNCHANGED <<g_in, g_failed, g_collected>>
    /\ UNCHANGED <<adapterVars, captchaVars, extractVars, rateVars>>

\* rank_recommendations has come back
AggRanked ==
    /\ g_pc = "ranking"
    /\ k_pc = "done"
    /\ IF k_result.status = "raised"
       THEN AggError /\ UNCHANGED g_all
       ELSE /\ g_all' = k_result.list
            /\ AggDisplay(k_result.list)
    /\ UNCHANGED <<g_in, g_failed, g_collected>>
    /\ UNCHANGED <<adapterVars, captchaVars, extractVars, rankVars, rateVars>>

\* replies of the ranking model while the aggregator waits
AggReplies ==
    {[kind |-> "unavailable", items |-> <<>>],
     [kind |-> "nojson", items |-> <<>>],
     [kind |-> "json", items |-> <<RankItem(3), RankItem(0)>>],
     [kind |-> "json", items |-> <<RankItem(1), RankItem(1)>>],
     [kind |-> "json", items |-> <<RankItemNoId>>]}

AggIdle ==
    /\ g_pc = "idle"
    /\ g_in = [platforms |-> {}, sort_by |-> "AI Recommendation", max_price |-> None]
    /\ g_failed = {}
    /\ g_collected = [a \in Platforms |-> <<>>]
    /\ g_all = <<>>
    /\ g_shown = Pending

AggNext ==
    \/ \E platform \in Platforms : \E back \in HandBacks(platform) :
            g_pc = platform /\ AggSearch(back)
    \/ AggRank
    \/ AggRanked
    \/ RankEnter
    \/ \E reply \in AggReplies : RankPrimary(reply.kind, reply.items)
    \/ \E reply \in AggReplies : RankFallback(reply.kind, reply.items)

-----------------------------------------------------------------------------
(* Rate limiting: utils/security.py SecurityManager.rate_limit_check *)

IpAddresses == {"10.0.0.1", "10.0.0.2"}

\* utils/config.py SECURITY["rate_limiting"]
RateLimitingEnabled == TRUE
MaxRequestsPerMinute == 2

\* seconds a request stays in the log
RateWindow == 60

\* time.time() between two calls: it may stand still, advance, or be set back
ClockSteps == {-30, 0, 30, 60}
MaxClock == 120

\* the comprehension with <= in place of <
RecentRequestsInclusive(log, current_time) ==
    SelectSeq(log, LAMBDA t : current_time - t <= RateWindow)

\* [t for t in request_log[ip] if current_time - t < 60]
RecentRequests(log, current_time) ==
    SelectSeq(log, LAMBDA t : current_time - t < RateWindow)

LogOf(ip) == IF ip \in DOMAIN request_log THEN request_log[ip] ELSE <<>>

Stored(ip, log) ==
    [x \in DOMAIN request_log \cup {ip} |-> IF x = ip THEN log ELSE request_log[x]]

RateLimitCheck(ip, step) ==
    /\ clock + step \in 0..MaxClock
    /\ clock' = clock + step
    /\ q_ip' = ip
    /\ IF ~RateLimitingEnabled
       THEN q_ret' = TRUE /\ UNCHANGED request_log
       ELSE LET kept == RecentRequests(LogOf(ip), clock')
            IN  IF Len(kept) >= MaxRequestsPerMinute
                THEN /\ q_ret' = FALSE
                     /\ request_log' = Stored(ip, kept)
                ELSE /\ q_ret' = TRUE
                     /\ request_log' = Stored(ip, Append(kept, clock'))
    /\ UNCHANGED <<adapterVars, captchaVars, extractVars, rankVars, aggVars, loginVars>>

\* SecurityManager.__init__
RateIdle ==
    /\ request_log = [x \in {} |-> <<>>]
    /\ clock = 0
    /\ q_ip = "none"
    /\ q_ret = TRUE

RateNext == \E ip \in IpAddresses : \E step \in ClockSteps : RateLimitCheck(ip, step)

-----------------------------------------------------------------------------
(* Login lockout: SecurityManager.validate_login_attempt and its companions *)

\* SECURITY["max_login_attempts"]
MaxLoginAttempts == 5

\* timedelta(minutes=15)
LockoutMinutes == 15

\* failures recorded for one key, at most
MaxFailures == 6

\* the latest time of day modelled, in minutes
MaxLoginClock == 30

\* minutes between one validation and the next (the wall clock may be set back)
LoginSteps == {-5, 0, 5, 15}

\* lockout_until: None
NoLockout == -1

\* {"count": 0, "lockout_until": None}
FreshEntry == [count |-> 0, lockout_until |-> NoLockout]

\* who logs in from where: user names and addresses as strings
LoginCallers ==
    {[username |-> <<"a">>, ip |-> <<"c">>],
     [username |-> <<"a">>, ip |-> <<"b", ":", "c">>],
     [username |-> <<"a", ":", "b">>, ip |-> <<"c">>]}

\* f"{username}:{ip_address}"
LoginKey(caller) == caller.username \o <<":">> \o caller.ip

\* the entry of a key, as "if key not in self.login_attempts" leaves it
EntryOf(key) ==
    IF key \in DOMAIN login_attempts THEN login_attempts[key] ELSE FreshEntry

WithEntry(key, entry) ==
    [k \in DOMAIN login_attempts \cup {key} |-> IF k = key THEN entry ELSE login_attempts[k]]

WithRecorded(key, n) ==
    [k \in DOMAIN l_recorded \cup {key} |-> IF k = key THEN n ELSE l_recorded[k]]

RecordedFor(key) == IF key \in DOMAIN l_recorded THEN l_recorded[key] ELSE 0

\* "lockout_until and datetime.now() < lockout_until"
LoginLockedOut(entry, now) ==
    entry.lockout_until # NoLockout /\ now < entry.lockout_until

\* "lockout_until and datetime.now() >= lockout_until"
LoginLockoutExpired(entry, now) ==
    entry.lockout_until # NoLockout /\ now >= entry.lockout_until

\* a variant that allows one failure more
LoginMaxReachedLate(count) == count > MaxLoginAttempts

\* "count >= max_attempts"
LoginMaxReached(count) == count >= MaxLoginAttempts

ValidateLoginAttempt(caller, step) ==
    LET key == LoginKey(caller)
        now == l_now + step
        entry == EntryOf(key)
        cleared == IF LoginLockoutExpired(entry, now) THEN FreshEntry ELSE entry
    IN  /\ now \in 0..MaxLoginClock
        /\ l_now' = now
        /\ IF LoginLockedOut(entry, now)
           THEN /\ login_attempts' = WithEntry(key, entry)
                /\ l_call' = [op |-> "validate", key |-> key, ret |-> FALSE]
                /\ UNCHANGED l_recorded
           ELSE /\ l_recorded' = IF LoginLockoutExpired(entry, now)
                                 THEN WithRecorded(key, 0) ELSE l_recorded
                /\ IF LoginMaxReached(cleared.count)
                   THEN /\ login_attempts' =
                              WithEntry(key, [cleared EXCEPT
                                                !.lockout_until = now + LockoutMinutes])
                        /\ l_call' = [op |-> "validate", key |-> key, ret |-> FALSE]
                   ELSE /\ login_attempts' = WithEntry(key, cleared)
                        /\ l_call' = [op |-> "validate", key |-> key, ret |-> TRUE]
        /\ UNCHANGED <<adapterVars, captchaVars, extractVars, rankVars, aggVars,
                       request_log, clock, q_ip, q_ret>>

RecordFailedLogin(caller) ==
    LET key == LoginKey(caller)
    IN  /\ EntryOf(key).count < MaxFailures
        /\ login_attempts' = WithEntry(key, [EntryOf(key) EXCEPT !.count = @ + 1])
        /\ l_recorded' = WithRecorded(key, RecordedFor(key) + 1)
        /\ l_call' = [op |-> "record", key |-> key, ret |-> TRUE]
        /\ UNCHANGED <<adapterVars, captchaVars, extractVars, rankVars, aggVars,
                       request_log, clock, q_ip, q_ret, l_now>>

ResetLoginAttempts(caller) ==
    LET key == LoginKey(caller)
    IN  /\ login_attempts' = IF key \in DOMAIN login_attempts
                             THEN WithEntry(key, FreshEntry) ELSE login_attempts
        /\ l_recorded' = IF key \in DOMAIN l_recorded THEN WithRecorded(key, 0) ELSE l_recorded
        /\ l_call' = [op |-> "reset", key |-> key, ret |-> TRUE]
        /\ UNCHANGED <<adapterVars, captchaVars, extractVars, rankVars, aggVars,
                       request_log, clock, q_ip, q_ret, l_now>>

\* SecurityManager.__init__
LoginIdle ==
    /\ login_attempts = [k \in {} |-> FreshEntry]
    /\ l_now = 0
    /\ l_recorded = [k \in {} |-> 0]
    /\ l_call = [op |-> "none", key |-> <<>>, ret |-> TRUE]

LoginNext ==
    \/ \E caller \in LoginCallers : \E step \in LoginSteps : ValidateLoginAttempt(caller, step)
    \/ \E caller \in LoginCallers : RecordFailedLogin(caller)
    \/ \E caller \in LoginCallers : ResetLoginAttempts(caller)

UtilIdle == CaptchaIdle /\ ExtractIdle /\ RankIdle /\ AggIdle /\ RateIdle /\ LoginIdle

-----------------------------------------------------------------------------
vars == <<adapterVars, utilVars>>

Init ==
    /\ active = "none"
    /\ EbayInit
    /\ NeweggInit
    /\ FbInit
    /\ creds \in [email : BOOLEAN, password : BOOLEAN]
    /\ profile = FALSE
    /\ cookies_file = NoCookiesFile
    /\ restores = 0
    /\ r_ctx = {}
    /\ r_last = NoRestore
    /\ UtilIdle

\* a scraper object with a browser context at hand, whatever the cookie file and
\* the cookies the persistent profile already holds
InitRestore ==
    /\ active = "none"
    /\ EbayInit
    /\ NeweggInit
    /\ FbInit
    /\ creds = [email |-> FALSE, password |-> FALSE]
    /\ profile = FALSE
    /\ cookies_file \in CookieFiles
    /\ restores = 0
    /\ r_ctx \in SUBSET CookieNames
    /\ r_last = NoRestore
    /\ UtilIdle

\* the adapters at rest, no credentials, no session
AdaptersIdle ==
    /\ active = "none"
    /\ EbayInit
    /\ NeweggInit
    /\ FbInit
    /\ creds = [email |-> FALSE, password |-> FALSE]
    /\ profile = FALSE
    /\ cookies_file = NoCookiesFile
    /\ restores = 0
    /\ r_ctx = {}
    /\ r_last = NoRestore

\* _check_for_captcha called on a page
InitCaptcha ==
    /\ AdaptersIdle
    /\ ExtractIdle /\ RankIdle /\ AggIdle /\ RateIdle /\ LoginIdle
    /\ c_page \in CaptchaPages
    /\ c_i = 1
    /\ c_raised = {}
    /\ c_result = "none"

\* the two HTTP-first adapters read no credentials
InitNoCredentials == Init /\ ~creds.email /\ ~creds.password

SpecEbay == InitNoCredentials /\ [][EbayNext]_vars

SpecNewegg == InitNoCredentials /\ [][NeweggNext]_vars

SpecFacebook == Init /\ [][FbNext]_vars

\* every step of a search that waits does so with a timeout (goto 20 s, the page
\* default 30 s, network idle 15 s and 10 s, the sleeps), so it completes
FbBoundedSteps ==
    \/ \E ok \in BOOLEAN : FbLaunch(ok)
    \/ \E how \in {"direct", "fallback", "fail"},
          url \in {"marketplace", "home", "login", "blank"}, i \in BOOLEAN :
          FbNavigate(how, url, i)
    \/ FbLoginCredentials
    \/ \E o \in {"checked", "raises", "no_form"} : FbLoginCheck(o)
    \/ \E a \in {"accepted", "accepted_raises", "rejected", "checkpoint", "raises"},
          i \in BOOLEAN : FbLoginSubmit(a, i)
    \/ \E ok \in BOOLEAN, url \in {"search", "login", "home", "marketplace", "checkpoint"},
          i \in BOOLEAN : FbOpenSearch(ok, url, i)
    \/ \E o \in {"ok", "screenshot_raises", "close_raises"}, page \in FbPages :
          FbExtract(o, page)

\* line 530: input() returns once the operator presses ENTER
FbOperatorAcknowledges ==
    \E url \in {"home", "checkpoint"}, i \in BOOLEAN, ok \in BOOLEAN :
        FbLoginCheckpoint(url, i, ok)

SpecFacebookLive ==
    /\ Init
    /\ [][FbNext]_vars
    /\ WF_vars(FbBoundedSteps)
    /\ WF_vars(FbOperatorAcknowledges)

SpecRestore == InitRestore /\ [][RestoreNext]_vars

SpecCaptcha == InitCaptcha /\ [][CaptchaNext]_vars

\* the extractors applied to one container after another
InitExtract == AdaptersIdle /\ UtilIdle

SpecExtract == InitExtract /\ [][ExtractNext]_vars

InitDocument == AdaptersIdle /\ UtilIdle

SpecDocument == InitDocument /\ [][DocumentNext]_vars

InitCondition == AdaptersIdle /\ UtilIdle

SpecCondition == InitCondition /\ [][ConditionNext]_vars

\* rank_recommendations called on a product list
InitRank ==
    /\ AdaptersIdle
    /\ CaptchaIdle /\ ExtractIdle /\ AggIdle /\ RateIdle /\ LoginIdle
    /\ k_pc = "called"
    /\ k_products \in RankProductLists
    /\ k_log = <<>>
    /\ k_order = <<>>
    /\ k_result = Pending

SpecRank == InitRank /\ [][RankNext]_vars

\* the search button pressed with a selection
InitAggregate ==
    /\ AdaptersIdle
    /\ CaptchaIdle /\ ExtractIdle /\ RankIdle /\ RateIdle /\ LoginIdle
    /\ g_pc = "ebay"
    /\ g_in \in AggInputs
    /\ g_failed = {}
    /\ g_collected = [a \in Platforms |-> <<>>]
    /\ g_all = <<>>
    /\ g_shown = Pending

SpecAggregate == InitAggregate /\ [][AggNext]_vars

\* a fresh SecurityManager
InitRate == AdaptersIdle /\ UtilIdle

SpecRate == InitRate /\ [][RateNext]_vars

\* a fresh SecurityManager, for the login calls
InitLogin == AdaptersIdle /\ UtilIdle

SpecLogin == InitLogin /\ [][LoginNext]_vars

\* the search URLs of the auction and the social-marketplace adapter
InitQuery == AdaptersIdle /\ UtilIdle

SpecQuery == InitQuery /\ [][QueryNext]_vars

\* the two browser-backed adapters, called one after the other
SpecBrowserAdapters == Init /\ [][NeweggNext \/ FbNext]_vars

-----------------------------------------------------------------------------
(* Reading a URL back: the properties below look at the built URL itself *)

ParamNames ==
    {"&_udhi=", "&LH_ItemCondition=", "&_stpos=", "&_localstpos=", "&_sadis=",
     "&LH_PrefLoc=1", "&N=", "&Price=%7B0%7D+TO+"}

\* position of the first occurrence of a token, 0 when absent
IndexOf(url, tok) ==
    IF \E i \in 1..Len(url) : url[i] = tok
    THEN CHOOSE i \in 1..Len(url) : url[i] = tok /\ \A j \in 1..(i - 1) : url[j] # tok
    ELSE 0

\* the tokens after position i, up to the next parameter name or the end
ValueAfter(url, i) ==
    LET stops == {j \in (i + 1)..(Len(url) + 1) : j = Len(url) + 1 \/ url[j] \in ParamNames}
        stop == CHOOSE j \in stops : \A k \in stops : j <= k
    IN  SubSeq(url, i + 1, stop - 1)

ParamValue(url, name) == ValueAfter(url, IndexOf(url, name))

HasParam(url, name) == IndexOf(url, name) # 0

Occurrences(url, tok) == Cardinality({i \in 1..Len(url) : url[i] = tok})

IsDigit(ch) == \E d \in 1..10 : DigitChars[d] = ch

DigitValue(ch) == (CHOOSE d \in 1..10 : DigitChars[d] = ch) - 1

RECURSIVE NumberOf(_)
NumberOf(ds) ==
    IF ds = <<>> THEN 0 ELSE 10 * NumberOf(SubSeq(ds, 1, Len(ds) - 1)) + DigitValue(ds[Len(ds)])

\* digits, a point, exactly two digits
TwoDecimals(v) ==
    /\ Len(v) >= 4
    /\ v[Len(v) - 2] = "."
    /\ \A i \in (1..Len(v)) \ {Len(v) - 2} : IsDigit(v[i])

CentsOf(v) == 100 * NumberOf(SubSeq(v, 1, Len(v) - 3)) + NumberOf(SubSeq(v, Len(v) - 1, Len(v)))

\* v is the amount `mills` (thousandths) rounded to the cent and shown with two decimals
ShowsPrice(v, mills) ==
    /\ TwoDecimals(v)
    /\ 10 * CentsOf(v) - 5 <= mills
    /\ mills < 10 * CentsOf(v) + 5

RECURSIVE Without(_, _)
Without(s, ch) ==
    IF s = <<>> THEN <<>>
    ELSE (IF Head(s) = ch THEN <<>> ELSE <<Head(s)>>) \o Without(Tail(s), ch)

\* q is the words of `keywords`, in order, with one '+' between neighbours
JoinedWithPlus(q, keywords) ==
    /\ Without(q, "+") = Without(keywords, " ")
    /\ \A i \in 1..Len(q) : q[i] # " "
    /\ q # <<>> => q[1] # "+" /\ q[Len(q)] # "+"
    /\ \A i \in 1..(Len(q) - 1) : ~(q[i] = "+" /\ q[i + 1] = "+")
    /\ Occurrences(q, "+") + 1 = Len(Split(keywords)) \/ (q = <<>> /\ Split(keywords) = <<>>)

-----------------------------------------------------------------------------
(* Properties of the auction adapter, under SpecEbay *)

EbayPrimaryOutcome == e_requests[1].outcome

\* C2 (as stated): search never raises; whatever the arguments and the HTTP
\* outcomes, a finished search has returned a list, and the list is empty when
\* neither the primary nor the backup attempt yielded a product.
EbaySearchNeverRaises ==
    e_pc = "done" =>
        /\ e_result.status = "returned"
        /\ (\A i \in 1..Len(e_requests) : e_requests[i].outcome # "products")
              => e_result.list = <<>>

\* C3: at most two requests in a search, the primary first; the backup is sent
\* exactly when the primary raised, got an error status or parsed to nothing,
\* never after a primary that yielded a product; nothing follows the backup.
EbayRequestOrder ==
    /\ Len(e_requests) <= 2
    /\ Len(e_requests) >= 1 =>
          e_requests[1].which = "primary" /\ e_requests[1].url = e_url
    /\ Len(e_requests) = 2 =>
          /\ e_requests[2].which = "backup"
          /\ e_requests[2].url = e_backup_url
          /\ EbayPrimaryOutcome # "products"
          /\ e_pc = "done"
    /\ (e_pc = "done" /\ e_result.status = "returned") =>
          /\ Len(e_requests) >= 1
          /\ (Len(e_requests) = 2) <=> (EbayPrimaryOutcome # "products")
          /\ EbayPrimaryOutcome = "products" => e_result.list = e_products /\ e_products # <<>>

\* a search whose primary got an error status and whose backup then ran
EbayBackupAfterErrorStatus ==
    /\ e_pc = "done"
    /\ Len(e_requests) = 2
    /\ EbayPrimaryOutcome = "status_error"
    /\ e_requests[2].outcome = "products"

EbayConditionCode(condition) ==
    IF condition \in {"new", "NEW"} THEN <<"1000">>
    ELSE IF condition \in {"used", "Used"} THEN <<"3000">>
    ELSE <<>>

EbayUrlHead(url, keywords, condition) ==
    /\ url # <<>>
    /\ <<url[1]>> = EbayBaseUrl
    /\ JoinedWithPlus(ValueAfter(url, 1), keywords)
    /\ IF EbayConditionCode(condition) # <<>>
       THEN /\ Occurrences(url, "&LH_ItemCondition=") = 1
            /\ ParamValue(url, "&LH_ItemCondition=") = EbayConditionCode(condition)
       ELSE ~HasParam(url, "&LH_ItemCondition=")

-----------------------------------------------------------------------------
(* Properties of the retail adapter, under SpecNewegg *)

NeweggCodeDigits(condition) ==
    IF condition \in {"new", "NEW"} THEN <<"1", "0", "0", "1", "6", "7", "6", "7", "1">>
    ELSE IF condition = "refurbished" THEN <<"1", "0", "0", "1", "6", "7", "6", "7", "0">>
    ELSE IF condition \in {"used", "Used"} THEN <<"1", "0", "0", "1", "6", "7", "6", "6", "9">>
    ELSE <<>>

\* C5: each condition puts its own fixed filter code into the request URL
\* (new 100167671, refurbished 100167670, used 100167669, pairwise distinct),
\* and a search without a condition has no N= filter.
NeweggConditionCodes ==
    /\ NeweggCodeNew # NeweggCodeRefurbished
    /\ NeweggCodeNew # NeweggCodeOpenBox
    /\ NeweggCodeRefurbished # NeweggCodeOpenBox
    /\ (active = "newegg" /\ n_in.kwIsStr) =>
          IF n_in.condition = "None"
          THEN ~HasParam(n_url, "&N=")
          ELSE /\ Occurrences(n_url, "&N=") = 1
               /\ ParamValue(n_url, "&N=") = NeweggCodeDigits(n_in.condition)
               /\ \A other \in {"new", "refurbished", "used"} :
                     NeweggCodeDigits(other) = ParamValue(n_url, "&N=")
                        => other = Lower(n_in.condition)

\* a search for refurbished items whose request went out
NeweggRefurbishedRequested ==
    /\ active = "newegg"
    /\ n_in.condition = "refurbished"
    /\ Len(n_log) >= 1
    /\ HasParam(n_url, "&N=")

-----------------------------------------------------------------------------
(* Properties of the social-marketplace adapter, under SpecFacebook *)

\* the _login_if_needed calls of the search so far, the running one included
FbLoginCalls ==
    IF f_pc \in {"login_check", "login_form", "checkpoint"}
    THEN Append(f_logins, f_call) ELSE f_logins

\* C7: with the email or the password missing, a search never goes to the login
\* page, never fills or submits the login form, and still returns a list.
FbNoLoginWithoutCredentials ==
    (~creds.email \/ ~creds.password) =>
        /\ \A i \in 1..Len(FbLoginCalls) :
              /\ FbLoginCalls[i].navs = 0
              /\ FbLoginCalls[i].fills = 0
              /\ FbLoginCalls[i].submits = 0
              /\ FbLoginCalls[i].prompts = 0
        /\ f_pc \notin {"login_check", "login_form", "checkpoint"}
        /\ f_pc = "done" => f_result.status = "returned"

\* a finished search with a password but no email, whose two login calls both
\* met a logged-out page
FbLoggedOutSearchWithoutEmail ==
    /\ f_pc = "done"
    /\ ~creds.email /\ creds.password
    /\ Len(f_logins) = 2
    /\ ~f_logins[1].entryIndicator /\ ~f_logins[2].entryIndicator
    /\ f_result.status = "returned"
    /\ f_result.list # <<>>

\* C8 (as stated): a call that finds a logged-in indicator on the page returns
\* true at once, with no navigation to the login page and no use of the form.
FbIndicatorShortCircuits ==
    \A i \in 1..Len(f_logins) :
        f_logins[i].entryIndicator =>
            /\ f_logins[i].result = "true"
            /\ f_logins[i].navs = 0
            /\ f_logins[i].fills = 0
            /\ f_logins[i].submits = 0

FbLoginSucceeded ==
    \E i \in 1..Len(f_logins) : f_logins[i].submits = 1 /\ f_logins[i].result = "true"

\* C10 (as stated): once a search has logged in, the cookie set is in the
\* session file, and a search over an existing session restores it before its
\* first look at the logged-in indicators.
FbSessionFilePersisted ==
    /\ (f_pc = "done" /\ FbLoginSucceeded) =>
          cookies_file.kind = "list" /\ cookies_file.cookies # <<>>
    /\ (profile /\ f_pc = "login" /\ f_logins = <<>>) => restores >= 1

-----------------------------------------------------------------------------
(* Properties of _restore_session, under SpecRestore *)

CookiesFileHoldsCookies == cookies_file.kind = "list" /\ cookies_file.cookies # <<>>

-----------------------------------------------------------------------------
(* Properties of the two browser-backed adapters, under SpecBrowserAdapters *)

\* the steps whose failure ends the search before anything was extracted
NeweggAbortingSteps == {"build_url", "launch", "navigate", "snapshot", "handle_captcha", "grid"}
FbAbortingSteps == {"launch", "navigate", "screenshot"}

BrowserAdaptersReturnLists ==
    /\ n_result.status # "raised"
    /\ f_result.status # "raised"
    /\ n_pc = "done" => n_result.status = "returned"
    /\ f_pc = "done" => f_result.status = "returned"

\* C1 (amended): whatever the input and whichever step fails, both searches
\* return a list and raise nothing; the list is empty when the failing step ends
\* the search before extraction (URL building, launch, navigation, captcha
\* snapshot or handler, grid wait; for the marketplace launch, navigation, the
\* screenshot before extraction). A failure that has a fallback (the plain
\* request, the login, the first page) or that comes after extraction (closing
\* the browser) leaves the list as extracted.
BrowserAdaptersNeverRaise ==
    /\ BrowserAdaptersReturnLists
    /\ (n_pc = "done" /\ n_raised \cap NeweggAbortingSteps # {}) => n_result.list = <<>>
    /\ (f_pc = "done" /\ f_raised \cap FbAbortingSteps # {}) => f_result.list = <<>>
    /\ (n_pc = "done" /\ Len(n_log) = 2) => n_result.list = n_products
    /\ f_pc = "done" => f_result.list = f_products

\* C1 (as stated): both searches return a list and raise nothing, and the list
\* is empty whenever an inner step raised.
BrowserAdaptersEmptyOnAnyRaise ==
    /\ BrowserAdaptersReturnLists
    /\ (n_pc = "done" /\ n_raised # {}) => n_result.list = <<>>
    /\ (f_pc = "done" /\ f_raised # {}) => f_result.list = <<>>

\* a retail search whose plain request raised and whose browser then failed to
\* launch: it has returned the empty list
NeweggBothPathsRaised ==
    /\ n_pc = "done"
    /\ n_raised = {"http", "launch"}
    /\ Len(n_log) = 2
    /\ n_result = Returned(<<>>)

-----------------------------------------------------------------------------
(* Degraded mode of the social-marketplace adapter, under SpecFacebook *)

FbLoginFailed == \E i \in 1..Len(f_logins) : f_logins[i].result = "false"

-----------------------------------------------------------------------------
(* Properties of the anti-bot detector, under SpecCaptcha *)

CaptchaSelectorVisible == \E k \in 1..Len(CaptchaSelectors) : c_page.sel[k] = "visible"

CaptchaVocabularyInContent ==
    \E i \in 1..Len(c_page.content) :
        c_page.content[i] \in {"CAPTCHA", "robots", "verify you are a human",
                               "are you a human", "Security Check"}

\* C12 (as stated): the detector answers true exactly when a challenge selector
\* is present and visible or the content holds a word of the vocabulary in any
\* letter case, and false otherwise; a selector that is absent or times out
\* does not stop the checks after it.
CaptchaTrueIffEitherTier ==
    /\ c_result # "none" =>
          (c_result = "true" <=> (CaptchaSelectorVisible \/ CaptchaVocabularyInContent))
    /\ (c_result = "none" /\ c_i >= 1) => c_i <= Len(CaptchaSelectors) + 1

-----------------------------------------------------------------------------
(* Properties of the emitted records, under SpecExtract *)

\* the URL field of a record: a string from the auction extractor, origin and
\* path from the others
RecordUrlHead(r) == IF x_extractor = "ebay" THEN r.url ELSE r.url[1]

AbsoluteHeads ==
    {"https://www.ebay.com/itm/1", "https://www.newegg.com", "https://www.newegg.com/p/2",
     "https://www.facebook.com", "https://www.facebook.com/marketplace/item/2"}

\* C13 (as stated): every record an extractor emits has a non-empty title and a
\* URL that starts with http, relative links having been rewritten.
RecordsHaveTitleAndAbsoluteUrl ==
    \A i \in 1..Len(x_out) :
        /\ x_out[i].title # ""
        /\ RecordUrlHead(x_out[i]) \in AbsoluteHeads

SourceOfExtractor ==
    CASE x_extractor = "ebay" -> "ebay"
      [] x_extractor \in {"newegg_html", "newegg_browser"} -> "newegg"
      [] OTHER -> "facebook"

\* C14 (as stated): every record carries a source field set by its adapter, with
\* one value per adapter.
RecordsCarryOwnSource ==
    \A i \in 1..Len(x_out) :
        /\ "source" \in DOMAIN x_out[i]
        /\ x_out[i].source = SourceOfExtractor

\* a container of the auction or retail source with a title and a link whose
\* price element is missing or holds no number
ContainerWithoutPrice ==
    /\ x_extractor \in {"ebay", "newegg_html", "newegg_browser"}
    /\ x_card.title \notin {"none", "  "}
    /\ x_card.href # "none"
    /\ IF x_extractor = "ebay"
       THEN x_card.price \in {"none", "See price"}
       ELSE x_card.price \in {NoPriceElement, PriceOutOfStock}

\* C15 (as stated): such a container gives zero records.
NoRecordWithoutPrice == ContainerWithoutPrice => x_out = <<>>

ExpectedCents(markup) ==
    CASE markup = PriceDollars -> 19999
      [] markup = PriceThousands -> 129999
      [] markup = PriceSplit -> 19999
      [] markup = PriceSplitThousands -> 129999
      [] OTHER -> 0

\* C16 (as stated): on both retail paths "$199.99" and "$1,299.99" give 199.99
\* and 1299.99, and so do the split pairs "199" + "99" and "1,299" + "99".
RetailPriceIsDollarsAndCents ==
    (x_extractor \in {"newegg_html", "newegg_browser"}
       /\ x_card.price \in {PriceDollars, PriceThousands, PriceSplit, PriceSplitThousands}
       /\ ~(x_extractor = "newegg_html" /\ x_card.sponsored)
       /\ x_card.title # "none" /\ x_card.href # "none") =>
        /\ Len(x_out) = 1
        /\ x_out[1].price = ExpectedCents(x_card.price)

-----------------------------------------------------------------------------
(* Properties of rank_recommendations, under SpecRank *)

IsReordering(order, n) ==
    /\ Len(order) = n
    /\ \A i \in 1..n : \E j \in 1..Len(order) : order[j] = i

\* the items of the reply the returned order was built from
RankedBy ==
    IF k_log # <<>> /\ k_log[Len(k_log)].kind \in {"json", "embedded"}
    THEN k_log[Len(k_log)].items
    ELSE <<>>

Named(position) == \E j \in 1..Len(RankedBy) : RankedBy[j].id = position - 1

\* C18 (as stated): whatever the ranking model answers, the returned list holds
\* each input product exactly once, the products the model did not name after
\* the ones it named.
RankReturnsReordering ==
    (k_pc = "done" /\ k_result.status = "returned") =>
        /\ IsReordering(k_order, Len(k_products))
        /\ \A i, j \in 1..Len(k_order) :
              ~(i < j /\ RankedBy # <<>> /\ ~Named(k_order[i]) /\ Named(k_order[j]))

\* no reply could be used: the primary model failed or sent no JSON, and so did
\* the fallback model if it was asked
ReplyUnusable ==
    /\ k_log # <<>>
    /\ k_log[1].kind \in {"unavailable", "nojson"}
    /\ Len(k_log) = 2 => k_log[2].kind \in {"unavailable", "nojson", "embedded"}

\* the amount a price stands for
Amount(price) ==
    CASE price.kind = "float" -> price.cents
      [] price.text = "$99.99" -> 9999
      [] price.text = "$199.99" -> 19999
      [] OTHER -> 0

AscendingByPrice(list) ==
    \A i, j \in 1..Len(list) :
        (i < j /\ list[i].price.kind # "missing" /\ list[j].price.kind # "missing")
            => Amount(list[i].price) <= Amount(list[j].price)

\* C19 (as stated): with no usable reply the function does not raise and returns
\* every input product, in ascending order of price, also when prices are
\* missing or are text.
RankFallsBackToPriceOrder ==
    (k_pc = "done" /\ ReplyUnusable) =>
        /\ k_result.status = "returned"
        /\ IsReordering(k_order, Len(k_products))
        /\ AscendingByPrice(k_result.list)

-----------------------------------------------------------------------------
(* Properties of the aggregation, under SpecAggregate *)

\* C17 (as stated): the search ends with a displayed list that holds exactly the
\* records the platforms handed back, each tagged with the platform it came from,
\* whatever failed inside any adapter.
AggregationIsolatesFailures ==
    g_pc = "done" =>
        /\ g_shown.status = "returned"
        /\ Len(g_shown.list) =
              Len(g_collected["ebay"]) + Len(g_collected["facebook"])
                + Len(g_collected["newegg"])
        /\ \A a \in Platforms : \A i \in 1..Len(g_collected[a]) :
              \E j \in 1..Len(g_shown.list) : g_shown.list[j] = g_collected[a][i]
        /\ \A j \in 1..Len(g_shown.list) :
              /\ "source" \in DOMAIN g_shown.list[j]
              /\ \E a \in Platforms :
                    /\ g_shown.list[j].source = a
                    /\ \E i \in 1..Len(g_collected[a]) :
                          g_collected[a][i] = g_shown.list[j]

-----------------------------------------------------------------------------
(* Properties of rate_limit_check, under SpecRate *)

\* how many of the timestamps in a log are younger than the window at a time
YoungerThanWindow(log, time) ==
    Cardinality({i \in 1..Len(log) : time - log[i] < RateWindow})

\* C20: after every call the ip checked has at most max_requests_per_minute
\* timestamps, all younger than 60 seconds; the call returned False exactly when
\* the ip had that many requests in the last 60 seconds; a refused call added
\* nothing; and the logs of the other ips are as they were.
RateLimitContract ==
    [][LET ip == q_ip'
           before == LogOf(ip)
           after == request_log'[ip]
           had == YoungerThanWindow(before, clock')
       IN  /\ Len(after) <= MaxRequestsPerMinute
           /\ \A i \in 1..Len(after) : clock' - after[i] < RateWindow
           /\ q_ret' = FALSE <=> had = MaxRequestsPerMinute
           /\ q_ret' = FALSE => Len(after) = had
           /\ q_ret' = TRUE => Len(after) = had + 1 /\ after[Len(after)] = clock'
           /\ \A other \in IpAddresses \ {ip} :
                 /\ other \in DOMAIN request_log' <=> other \in DOMAIN request_log
                 /\ other \in DOMAIN request_log => request_log'[other] = request_log[other]
      ]_vars

\* one ip is refused at its limit while the log of the other ip still holds a
\* request older than the window
RateLimitedOneIpOnly ==
    /\ q_ip # "none"
    /\ q_ret = FALSE
    /\ Len(request_log[q_ip]) = MaxRequestsPerMinute
    /\ clock >= RateWindow
    /\ \E other \in DOMAIN request_log \ {q_ip} :
          /\ request_log[other] # <<>>
          /\ \E i \in 1..Len(request_log[other]) : clock - request_log[other][i] >= RateWindow

-----------------------------------------------------------------------------
(* Termination of the social-marketplace search, under SpecFacebookLive *)

FbSearchRunning == active = "facebook" /\ f_pc # "done"

FbSearchReturned == f_pc = "done" /\ f_result.status = "returned"

\* C21: a search that has started ends with a list, given that bounded waits
\* expire and the operator acknowledges the prompt; and the prompt, the one wait
\* without a timeout, is open only after a submitted login form left the page on
\* a "checkpoint" URL with no authentication indicator.
FbSearchTerminates ==
    /\ FbSearchRunning ~> FbSearchReturned
    /\ [](f_pc = "checkpoint" =>
            /\ FbUrlHasCheckpoint(f_url)
            /\ ~f_indicator
            /\ f_call.submits = 1)

\* a search came back after the operator had been prompted
FbReturnedAfterPrompt ==
    /\ FbSearchReturned
    /\ \E i \in 1..Len(f_logins) : f_logins[i].prompts = 1

-----------------------------------------------------------------------------
(* The challenge branch of the retail browser path, under SpecNewegg *)

\* C22: a step of the challenge branch in which the handler reported the
\* challenge unhandled ends the attempt with an empty list and extracts nothing;
\* with no challenge detected, or the handler reporting it handled, the step
\* leads to the wait for the product grid; products are extracted only there.
NeweggUnhandledChallengeEndsAttempt ==
    [][/\ (n_pc = "captcha" /\ "handle_captcha" \in n_raised') =>
            /\ NeweggCheckForCaptcha(n_page)
            /\ n_pc' = "done"
            /\ n_result' = Returned(<<>>)
            /\ n_products' = <<>>
       /\ (n_pc = "captcha" /\ n_pc' # n_pc
             /\ (~NeweggCheckForCaptcha(n_page) \/ n_raised' = n_raised)) =>
            n_pc' = "grid"
       /\ n_pc \in {"launch", "navigate", "captcha", "close"} => n_products' = n_products
      ]_vars

\* an attempt ended on an unhandled challenge although the page held product cells
NeweggEndedOnUnhandledChallenge ==
    /\ n_pc = "done"
    /\ "handle_captcha" \in n_raised
    /\ n_page.cells # <<>>
    /\ n_result = Returned(<<>>)

-----------------------------------------------------------------------------
(* Documents through the plain-HTTP and browser extractors, under SpecDocument *)

\* an auction container that holds a complete listing and is no promotional card
EbayUsable(card) ==
    /\ ~card.more
    /\ card.title # "none" /\ Strip(card.title) # ""
    /\ Lower(Strip(card.title)) # "shop on ebay"
    /\ card.price # "none"
    /\ card.href \notin {"none", NoHrefAttribute}

\* a retail cell that holds a title, a price that reads as a number and a link,
\* and is not sponsored
NeweggUsable(cell) ==
    /\ ~cell.sponsored
    /\ cell.title # "none"
    /\ cell.price # NoPriceElement /\ NeweggHtmlPrice(cell.price).ok
    /\ cell.href # "none"

\* the usable containers among those the extractor ran over
UsableContainers ==
    {i \in 1..Len(x_card.containers) :
        IF x_extractor = "ebay" THEN EbayUsable(x_card.containers[i])
        ELSE NeweggUsable(x_card.containers[i])}

\* C23: in the plain-HTTP paths of the auction and the retail adapter the
\* anti-bot vocabulary is advisory: a response whose text holds the vocabulary
\* and whose containers include a valid listing is still extracted, so the
\* result is not empty.
VocabularyIsAdvisory ==
    /\ (x_extractor = "ebay" /\ x_card.document.robot /\ UsableContainers # {})
          => x_out # <<>>
    /\ (x_extractor = "newegg_html" /\ x_card.document.vocab /\ UsableContainers # {})
          => x_out # <<>>

\* the selectors of the document that match at least one element
MatchingSelectors == {k \in 1..Len(x_card.document.matches) : x_card.document.matches[k] # <<>>}

\* the containers an ordered cascade hands to the loop: the matches of the
\* lowest-numbered selector that has any; for the retail response with no
\* match at all, the ancestors of the price elements
CascadeContainers ==
    IF MatchingSelectors # {}
    THEN x_card.document.matches[CHOOSE k \in MatchingSelectors :
                                    \A other \in MatchingSelectors : k <= other]
    ELSE IF x_extractor = "newegg_html" THEN x_card.document.priceParents
    ELSE <<>>

\* the containers come from the cascade
ContainersFromFirstMatch ==
    x_extractor \in {"ebay", "newegg_html", "newegg_browser"} =>
        x_card.containers = CascadeContainers

\* C24: container discovery is an ordered cascade (the first selector with a
\* match, in the listed order, supplies the containers; an alternative only
\* when the primary matches nothing), and a document free of the anti-bot
\* vocabulary whose listings are matched only by an alternative selector still
\* has them parsed and returned.
CascadeMatchesReturned ==
    /\ ContainersFromFirstMatch
    /\ (/\ x_extractor \in {"ebay", "newegg_html", "newegg_browser"}
        /\ Head(x_card.document.matches) = <<>>
        /\ UsableContainers # {}
        /\ x_extractor = "ebay" => ~x_card.document.robot
        /\ x_extractor = "newegg_html" => ~x_card.document.vocab)
          => x_out # <<>>

\* the same for the auction extractor and the retail browser extractor alone
CascadeMatchesReturnedOutsideRetailHttp ==
    x_extractor # "newegg_html" => CascadeMatchesReturned

-----------------------------------------------------------------------------
(* Condition inference, under SpecCondition *)

\* the keywords of the condition vocabulary that occur in the card's text
\* (a keyword inside a longer one, "new" inside "like new", does not count)
KeywordsPresent ==
    LET text == FbCardText(x_card)
    IN  {w \in {"good", "fair", "poor", "used"} : HasPhrase(text, <<w>>)}
          \cup (IF HasPhrase(text, <<"like", "new">>) THEN {"like new"} ELSE {})
          \cup (IF \E i \in 1..Len(text) :
                      text[i] = "new" /\ (i = 1 \/ text[i - 1] # "like")
                THEN {"new"} ELSE {})

\* C25: for a card whose text holds both "like new" and "new" the condition is
\* "Like New", not "New"; a card with none of the condition keywords gets
\* "Not specified".
ConditionMostSpecificFirst ==
    (x_extractor = "facebook_condition" /\ ~x_card.detached) =>
        /\ HasPhrase(FbCardText(x_card), <<"like", "new">>) => x_out = <<"Like New">>
        /\ KeywordsPresent = {} => x_out = <<"Not specified">>

\* the part about cards without any condition keyword
NoKeywordNotSpecified ==
    (x_extractor = "facebook_condition" /\ KeywordsPresent = {}) => x_out = <<"Not specified">>

\* a container the auction extractor must leave out: the "More items like
\* this" text, a "Shop on eBay" title in any letter case, or an empty title
EbayPlaceholder(card) ==
    \/ card.more
    \/ card.title # "none" /\ Lower(Strip(card.title)) = "shop on ebay"
    \/ card.title # "none" /\ Strip(card.title) = ""

\* C26: no record of the auction extractor stems from a placeholder or
\* promotional container (every record is the record of a container that is
\* none, and there are no more records than such containers), and the
\* marketplace loop writes the generic title "Facebook Marketplace Item" only
\* for an element none of whose lines can serve as a title.
PlaceholdersExcluded ==
    /\ x_extractor = "ebay" =>
          /\ \A i \in 1..Len(x_out) :
                /\ Lower(x_out[i].title) # "shop on ebay" /\ x_out[i].title # ""
                /\ \E j \in 1..Len(x_card.containers) :
                      /\ ~EbayPlaceholder(x_card.containers[j])
                      /\ Strip(x_card.containers[j].title) = x_out[i].title
                      /\ x_card.containers[j].href = x_out[i].url
          /\ Len(x_out) <= Cardinality({j \in 1..Len(x_card.containers) :
                                          ~EbayPlaceholder(x_card.containers[j])})
    /\ x_extractor = "facebook" =>
          \A i \in 1..Len(x_out) :
              x_out[i].title = "Facebook Marketplace Item" =>
                  \A k \in 1..Len(x_card.document.lines) :
                      \/ x_card.document.lines[k].dollar
                      \/ x_card.document.lines[k].chars <= FbTitleMinChars

\* a page whose first container is a promotional card in capital letters and
\* whose second container is a listing that was returned
PlaceholderLeftOutOfResults ==
    /\ x_extractor = "ebay"
    /\ Len(x_card.containers) = 2
    /\ x_card.containers[1].title = "SHOP ON EBAY"
    /\ Len(x_out) = 1

\* the usable containers of the page, in document order
UsableInOrder ==
    SelectSeq(x_card.containers,
              LAMBDA c : IF x_extractor = "ebay" THEN EbayUsable(c) ELSE NeweggUsable(c))

\* the link a record of the extractor carries for a container's href
RecordUrl(href) == IF x_extractor = "ebay" THEN href ELSE NeweggAbsolute(href)

\* the records are those of the usable containers, one each, in document order
RecordsOfUsableInOrder ==
    /\ Len(x_out) = Len(UsableInOrder)
    /\ \A k \in 1..Len(x_out) :
          /\ x_out[k].title = Strip(UsableInOrder[k].title)
          /\ x_out[k].url = RecordUrl(UsableInOrder[k].href)

\* C27: on a page free of the anti-bot vocabulary a container that lacks a
\* mandatory field or raises during parsing is skipped alone: the auction and
\* the retail plain-HTTP extractor return the record of every other well-formed
\* container, in the document order of the containers.
ParseFailureIsLocal ==
    /\ (x_extractor = "ebay" /\ ~x_card.document.robot) => RecordsOfUsableInOrder
    /\ (x_extractor = "newegg_html" /\ ~x_card.document.vocab) => RecordsOfUsableInOrder

\* the same for the auction extractor alone
EbayParseFailureIsLocal ==
    (x_extractor = "ebay" /\ ~x_card.document.robot) => RecordsOfUsableInOrder

-----------------------------------------------------------------------------
(* The condition filter in the search URLs, under SpecQuery *)

\* the condition values of the search filter
FilterConditions == {"new", "used", "refurbished"}

\* the name of the condition parameter in the URL that was built
ConditionParamName ==
    IF x_extractor = "ebay_url" THEN "&LH_ItemCondition=" ELSE "&condition="

\* what the adapter that built the URL maps a condition to
ConditionParamOf(condition) ==
    IF x_extractor = "ebay_url" THEN EbayConditionParam(condition)
    ELSE FbConditionParam(condition)

\* C28: a search URL of the auction or the social-marketplace adapter built for
\* a condition of {new, used, refurbished} holds a condition parameter, and no
\* other condition of the enum is mapped to the same parameter value by that
\* adapter.
ConditionsMapDistinctly ==
    (x_extractor \in {"ebay_url", "facebook_url"}
        /\ Lower(x_card.condition) \in FilterConditions) =>
        /\ HasParam(x_out, ConditionParamName)
        /\ \A other \in FilterConditions \ {Lower(x_card.condition)} :
              ConditionParamOf(other) #
                  <<ConditionParamName>> \o ParamValue(x_out, ConditionParamName)

\* the same for the values new and used in the auction adapter alone
EbayNewAndUsedMapDistinctly ==
    (x_extractor = "ebay_url" /\ Lower(x_card.condition) \in {"new", "used"}) =>
        /\ HasParam(x_out, ConditionParamName)
        /\ \A other \in {"new", "used"} \ {Lower(x_card.condition)} :
              ConditionParamOf(other) #
                  <<ConditionParamName>> \o ParamValue(x_out, ConditionParamName)

-----------------------------------------------------------------------------
(* The login lockout, under SpecLogin *)

\* C29: a validation returns False exactly when, at the time of the call, the
\* key is inside its lockout window or has at least max_login_attempts failures
\* recorded since its counter was last cleared; a validation after the window
\* has elapsed clears the counter and the lockout and returns True; and
\* reset_login_attempts leaves the key with a cleared counter and no lockout.
LoginLockoutContract ==
    [][/\ l_call'.op = "validate" =>
            LET key == l_call'.key
                before == EntryOf(key)
                inside == before.lockout_until # NoLockout /\ l_now' < before.lockout_until
                elapsed == before.lockout_until # NoLockout /\ l_now' >= before.lockout_until
                failures == IF elapsed THEN 0 ELSE RecordedFor(key)
            IN  /\ l_call'.ret = FALSE <=> (inside \/ failures >= MaxLoginAttempts)
                /\ elapsed => /\ l_call'.ret = TRUE
                              /\ login_attempts'[key] = FreshEntry
                /\ (~inside /\ ~elapsed /\ failures >= MaxLoginAttempts) =>
                      login_attempts'[key].lockout_until = l_now' + LockoutMinutes
       /\ l_call'.op = "reset" =>
            /\ l_call'.key \in DOMAIN login_attempts' =>
                  login_attempts'[l_call'.key] = FreshEntry
            /\ l_call'.key \in DOMAIN l_recorded' => l_recorded'[l_call'.key] = 0
      ]_vars

\* a key was refused on its fifth recorded failure and is inside its window
LockedOutAfterFiveFailures ==
    /\ l_call.op = "validate" /\ l_call.ret = FALSE
    /\ RecordedFor(l_call.key) = MaxLoginAttempts
    /\ EntryOf(l_call.key).lockout_until = l_now + LockoutMinutes

-----------------------------------------------------------------------------
(* The two retail extractors on the same cell, under SpecExtract *)

\* what the other retail extractor makes of the cell the state holds
OtherRetailPath ==
    IF x_extractor = "newegg_html" THEN NeweggExtractProductsFromPage(<<x_card>>)
    ELSE NeweggParseCells(<<x_card>>)

\* C30: for the same cell the plain-HTTP extractor and the browser extractor of
\* the retail adapter accept or reject alike, and when both accept their records
\* agree on title, numeric price, absolute URL, the name of the URL field and
\* the source value.
RetailPathsAgree ==
    x_extractor \in {"newegg_html", "newegg_browser"} =>
        /\ x_out = <<>> <=> OtherRetailPath = <<>>
        /\ (x_out # <<>> /\ OtherRetailPath # <<>>) =>
              /\ x_out[1].title = OtherRetailPath[1].title
              /\ x_out[1].price = OtherRetailPath[1].price
              /\ x_out[1].url = OtherRetailPath[1].url
              /\ x_out[1].urlKey = OtherRetailPath[1].urlKey
              /\ x_out[1].source = OtherRetailPath[1].source

====
